---------------------------- MODULE Spec2Model ----------------------------
(***************************************************************************)
(* A model of the spreadsheet crate.  The geometry adapter layer           *)
(* (src/src/convert.rs): the ring reconstruction of geo_polygons, the      *)
(* bounding rectangle aggregation of bounded_polygon and                   *)
(* bounded_multipolygon, the point and line conversions and the parallel   *)
(* multipolygon.  The importers (src/src/import, src/src/utils.rs): the    *)
(* Beehive events with their CCTV reports, manhole cards and assets, the   *)
(* schedule time read by hm12, the BEA values read by str_to_int, the      *)
(* manhole cards of a directory and the owner codes.                       *)
(*                                                                         *)
(* Floating point coordinates are modelled by the integers                 *)
(* F64_MIN..F64_MAX; only comparisons and copies are applied to them in    *)
(* the code, never arithmetic.  Option<T> is modelled by a sequence of     *)
(* length at most one: <<>> is None and <<v>> is Some(v).                  *)
(***************************************************************************)
EXTENDS Integers, Sequences, FiniteSets, TLC

VARIABLES
    rings,      \* geo_polygons: the ring list self.0.into_inner()
    idx,        \* geo_polygons: position of the for loop in rings
    polys,      \* geo_polygons: let mut polys
    outer,      \* geo_polygons: let mut outer (an Option)
    inner,      \* geo_polygons: let mut inner
    pc,         \* geo_polygons: "idle", "loop", "done" or "panic"
    mp,         \* bounded_multipolygon: the parts of self.0
    bi,         \* bounded_multipolygon: position of the running loop
    parts,      \* bounded_multipolygon: the converted polygons collected
    boundaries, \* bounded_multipolygon: let mut boundaries
    acc,        \* bounded_multipolygon: xmin, ymin, xmax, ymax
    bounds,     \* bounded_multipolygon: the returned Rect (an Option here:
                \* <<>> until the function returns)
    bpc,        \* bounded_multipolygon: "idle", "map", "fold" or "done"
    origin,     \* Convert: the value first wrapped by Convert::new
    wrapped,    \* Convert: the value self.0 of the current wrapper
    trail,      \* Convert: the conversions called so far, with their results
    pin,        \* multipolygon: the polygons of self.0
    slots,      \* multipolygon: the result of each polygon, once a worker
                \* has converted it (an Option each)
    order,      \* multipolygon: the indices in the order the workers finished
    pout,       \* multipolygon: the collected parts
    ppc,        \* multipolygon: "idle", "run" or "done"
    calls,      \* the calls of geo_polygons that returned: argument and result
    zrings,     \* PointZ geo_polygons: the ring list self.0.into_inner()
    zidx,       \* PointZ geo_polygons: position of the for loop in zrings
    zpolys,     \* PointZ geo_polygons: let mut polys
    zouter,     \* PointZ geo_polygons: let mut outer (an Option)
    zinner,     \* PointZ geo_polygons: let mut inner
    zpc,        \* PointZ geo_polygons: "idle", "loop" or "done"
    events,     \* beehive::Events: the vector self.0
    eprev,      \* beehive::Events: self.0 as the last call found it
    reports,    \* build_cctv_reports: the argument reports
    cards,      \* add_manhole_cards: the argument cards
    assets,     \* from_devices, from_lines, from_junctions: the argument
    eret,       \* from_devices, from_lines, from_junctions: the value returned
    eop,        \* beehive::Events: the method called last, "none" before any
    ecalls,     \* beehive::Events: the number of calls so far
    hm,         \* hm12: the input, as hour digits, minute digits and meridian letters
    htime,      \* hm12: the value returned (an Option: <<>> is Err)
    schedule_time,\* Event::try_from: let mut schedule_time
    hpc,        \* hm12: "idle", "call" or "done"
    sval,       \* str_to_int: the value, a sequence of characters
    sres,       \* str_to_int: the Result returned (<<>> before the return)
    spc,        \* BeaData::try_from: "idle", "call", "kept", "dropped" or "failed"
    ocode,      \* the owner code read from the record, as i8
    oentity,    \* Entity::from(code) (an Option: <<>> until decoded)
    oviaentity, \* Owner::from(&entity) (an Option)
    odirect,    \* Owner::from(code) (an Option)
    mdevices,   \* ManholeCards::from_devices: the argument devices
    mnames,     \* the file names read_dir found, without extension
    mcards,     \* ManholeCards::from_devices: the cards returned
    morphans,   \* ManholeCards::orphans: the names returned
    mpc         \* manhole cards: "idle", "read", "built" or "done"

varsRings == <<rings, idx, polys, outer, inner, pc>>
varsBounds == <<mp, bi, parts, boundaries, acc, bounds, bpc>>
varsConv == <<origin, wrapped, trail>>
varsPar == <<pin, slots, order, pout, ppc>>
varsCalls == <<calls>>
varsTwin == <<zrings, zidx, zpolys, zouter, zinner, zpc>>
varsEvents == <<events, eprev, reports, cards, assets, eret, eop, ecalls>>
varsClock == <<hm, htime, schedule_time, hpc>>
varsBea == <<sval, sres, spc>>
varsOwner == <<ocode, oentity, oviaentity, odirect>>
varsCards == <<mdevices, mnames, mcards, morphans, mpc>>
vars == <<varsRings, varsBounds, varsConv, varsPar, varsCalls, varsTwin, varsEvents, varsClock, varsBea, varsOwner, varsCards>>

\* What an action of one component leaves alone.
OutsideRings == <<varsBounds, varsConv, varsPar, varsCalls, varsTwin, varsEvents, varsClock, varsBea, varsOwner, varsCards>>
OutsideBounds == <<varsRings, varsConv, varsPar, varsCalls, varsTwin, varsEvents, varsClock, varsBea, varsOwner, varsCards>>
OutsideConv == <<varsRings, varsBounds, varsPar, varsCalls, varsTwin, varsEvents, varsClock, varsBea, varsOwner, varsCards>>
OutsidePar == <<varsRings, varsBounds, varsConv, varsCalls, varsTwin, varsEvents, varsClock, varsBea, varsOwner, varsCards>>
OutsideTwin == <<varsRings, varsBounds, varsConv, varsPar, varsCalls, varsEvents, varsClock, varsBea, varsOwner, varsCards>>
OutsideRingsAndCalls == <<varsBounds, varsConv, varsPar, varsTwin, varsEvents, varsClock, varsBea, varsOwner, varsCards>>
OutsideEvents == <<varsRings, varsBounds, varsConv, varsPar, varsCalls, varsTwin, varsClock, varsBea, varsOwner, varsCards>>
OutsideClock == <<varsRings, varsBounds, varsConv, varsPar, varsCalls, varsTwin, varsEvents, varsBea, varsOwner, varsCards>>
OutsideBea == <<varsRings, varsBounds, varsConv, varsPar, varsCalls, varsTwin, varsEvents, varsClock, varsOwner, varsCards>>
OutsideOwner == <<varsRings, varsBounds, varsConv, varsPar, varsCalls, varsTwin, varsEvents, varsClock, varsBea, varsCards>>
OutsideCards == <<varsRings, varsBounds, varsConv, varsPar, varsCalls, varsTwin, varsEvents, varsClock, varsBea, varsOwner>>

(***************************************************************************)
(* Bounds of the model.                                                    *)
(***************************************************************************)
MaxRings == 4
MaxParts == 3
MaxHops == 3
MaxCalls == 2
MaxEvents == 2
MaxLen == 5
MaxNames == 3

\* f64::MAX, scaled to the model's number range; f64::MIN is its negation.
F64_MAX == 1000
F64_MIN == -F64_MAX

Pt(a, b) == [x |-> a, y |-> b]

Min2(a, b) == IF a < b THEN a ELSE b
Max2(a, b) == IF a > b THEN a ELSE b

(***************************************************************************)
(* Point and line string adapters.                                         *)
(***************************************************************************)
\* Convert<shapefile Point>::geo_coord: geo::coord!(x: self.x(), y: self.y())
GeoCoord(p) == [x |-> p.x, y |-> p.y]

\* Convert<PolygonRing<Point>>::geo_linestring: one Coord per point, in order.
GeoLinestring(ring) ==
    [i \in 1..Len(ring.points) |-> GeoCoord(ring.points[i])]

\* geo_types LineString::close, applied by Polygon::new to every ring: the
\* first coordinate is pushed at the end unless first = last (an empty line
\* string counts as closed).
Close(ls) ==
    IF Len(ls) = 0 \/ ls[1] = ls[Len(ls)] THEN ls ELSE Append(ls, ls[1])

\* geo::geometry::Polygon::new(exterior, interiors)
PolygonNew(ext, ints) ==
    [exterior |-> Close(ext),
     interiors |-> [i \in 1..Len(ints) |-> Close(ints[i])]]

(***************************************************************************)
(* Ring reconstruction: Convert<shapefile Polygon>::geo_polygons.          *)
(***************************************************************************)
\* A mutant of RingInit: the vector of holes is the one the last call left.
RingInitStaleHoles == [polys |-> <<>>, outer |-> <<>>, inner |-> inner]

\* The loop state before the first ring.
RingInit == [polys |-> <<>>, outer |-> <<>>, inner |-> <<>>]

\* A mutant of RingStep: an Inner ring met while no outer ring is pending is
\* not accumulated.
RingStepDropOrphan(st, ring) ==
    IF ring.role = "Outer"
    THEN IF st.outer # <<>>
         THEN [polys |-> Append(st.polys, PolygonNew(st.outer[1], st.inner)),
               outer |-> <<>>,
               inner |-> <<>>]
         ELSE [st EXCEPT !.outer = <<GeoLinestring(ring)>>]
    ELSE IF st.outer = <<>>
         THEN st
         ELSE [st EXCEPT !.inner = Append(@, GeoLinestring(ring))]

\* A mutant of RingStep: an emitted polygon is put at the head of polys.
RingStepEmitsAtHead(st, ring) ==
    IF ring.role = "Outer"
    THEN IF st.outer # <<>>
         THEN [polys |-> <<PolygonNew(st.outer[1], st.inner)>> \o st.polys,
               outer |-> <<>>,
               inner |-> <<>>]
         ELSE [st EXCEPT !.outer = <<GeoLinestring(ring)>>]
    ELSE [st EXCEPT !.inner = Append(@, GeoLinestring(ring))]

\* One iteration of the for loop (the match on ring.clone()).
RingStep(st, ring) ==
    IF ring.role = "Outer"
    THEN IF st.outer # <<>>
         THEN [polys |-> Append(st.polys, PolygonNew(st.outer[1], st.inner)),
               outer |-> <<>>,
               inner |-> <<>>]
         ELSE [st EXCEPT !.outer = <<GeoLinestring(ring)>>]
    ELSE [st EXCEPT !.inner = Append(@, GeoLinestring(ring))]

\* A mutant of FinalFlush: the pending outer ring is never flushed.
FinalFlushNever(st) == [polys |-> st.polys, status |-> "done"]

\* A mutant of FinalFlush: outer.unwrap() in place of if let Some(ring).
FinalFlushUnwrap(st) ==
    IF st.polys = <<>>
    THEN IF st.outer # <<>>
         THEN [polys |-> <<PolygonNew(st.outer[1], st.inner)>>,
               status |-> "done"]
         ELSE [polys |-> st.polys, status |-> "panic"]
    ELSE [polys |-> st.polys, status |-> "done"]

\* A mutant of FinalFlush: a pending outer ring is flushed whether or not
\* polys is empty.
FinalFlushAlways(st) ==
    IF st.outer # <<>>
    THEN [polys |-> Append(st.polys, PolygonNew(st.outer[1], st.inner)),
          status |-> "done"]
    ELSE [polys |-> st.polys, status |-> "done"]

\* The code after the loop: if polys.is_empty() { if let Some(ring) = outer
\* { polys.push(Polygon::new(ring, inner)) } }; polys
FinalFlush(st) ==
    IF st.polys = <<>> /\ st.outer # <<>>
    THEN [polys |-> Append(st.polys, PolygonNew(st.outer[1], st.inner)),
          status |-> "done"]
    ELSE [polys |-> st.polys, status |-> "done"]

\* The loop state after the first n rings of rs.
RECURSIVE RingFold(_, _)
RingFold(rs, n) ==
    IF n = 0 THEN RingInit ELSE RingStep(RingFold(rs, n - 1), rs[n])

\* geo_polygons as a function of the ring list.
GeoPolygons(rs) == FinalFlush(RingFold(rs, Len(rs))).polys

(***************************************************************************)
(* The inputs of geo_polygons: ring lists of at most MaxRings rings, each  *)
(* ring Outer or Inner with the points of one of four shapes.              *)
(***************************************************************************)
ShapeA == <<Pt(0, 0), Pt(0, 10), Pt(10, 10), Pt(10, 0), Pt(0, 0)>>
ShapeA1 == <<Pt(2, 2), Pt(2, 4), Pt(4, 4), Pt(4, 2), Pt(2, 2)>>
ShapeA2 == <<Pt(6, 6), Pt(6, 8), Pt(8, 8), Pt(6, 6)>>
\* not closed: the file reader is not required to hand over closed rings
ShapeB == <<Pt(20, 20), Pt(20, 30), Pt(30, 20)>>
RingShapes == {ShapeA, ShapeA1, ShapeA2, ShapeB}

Outer(s) == [role |-> "Outer", points |-> s]
Inner(s) == [role |-> "Inner", points |-> s]
Rings == {Outer(s) : s \in RingShapes} \cup {Inner(s) : s \in RingShapes}

RingLists == UNION {[1..n -> Rings] : n \in 0..MaxRings}

LoopState == [polys |-> polys, outer |-> outer, inner |-> inner]

IdleRings ==
    /\ rings = <<>>
    /\ idx = 0
    /\ polys = <<>>
    /\ outer = <<>>
    /\ inner = <<>>
    /\ pc = "idle"

IdleBounds ==
    /\ mp = <<>>
    /\ bi = 0
    /\ parts = <<>>
    /\ boundaries = <<>>
    /\ acc = <<>>
    /\ bounds = <<>>
    /\ bpc = "idle"

IdleConv ==
    /\ origin = <<>>
    /\ wrapped = <<>>
    /\ trail = <<>>

IdlePar ==
    /\ pin = <<>>
    /\ slots = <<>>
    /\ order = <<>>
    /\ pout = <<>>
    /\ ppc = "idle"

IdleCalls == calls = <<>>

IdleTwin ==
    /\ zrings = <<>>
    /\ zidx = 0
    /\ zpolys = <<>>
    /\ zouter = <<>>
    /\ zinner = <<>>
    /\ zpc = "idle"

IdleEvents ==
    /\ events = <<>>
    /\ eprev = <<>>
    /\ reports = <<>>
    /\ cards = <<>>
    /\ assets = <<>>
    /\ eret = <<>>
    /\ eop = "none"
    /\ ecalls = 0

IdleClock ==
    /\ hm = <<>>
    /\ htime = <<>>
    /\ schedule_time = <<>>
    /\ hpc = "idle"

IdleBea ==
    /\ sval = <<>>
    /\ sres = <<>>
    /\ spc = "idle"

IdleOwner ==
    /\ ocode = 0
    /\ oentity = <<>>
    /\ oviaentity = <<>>
    /\ odirect = <<>>

IdleCards ==
    /\ mdevices = <<>>
    /\ mnames = <<>>
    /\ mcards = <<>>
    /\ morphans = <<>>
    /\ mpc = "idle"

\* geo_polygons is entered with a ring list; polys, outer and inner are new.
InitRings ==
    /\ rings \in RingLists
    /\ idx = 1
    /\ polys = RingInit.polys
    /\ outer = RingInit.outer
    /\ inner = RingInit.inner
    /\ pc = "loop"
    /\ IdleBounds
    /\ IdleConv
    /\ IdlePar
    /\ IdleCalls
    /\ IdleTwin
    /\ IdleEvents
    /\ IdleClock
    /\ IdleBea
    /\ IdleOwner
    /\ IdleCards

ApplyRingStep ==
    LET s == RingStep(LoopState, rings[idx])
    IN  /\ polys' = s.polys
        /\ outer' = s.outer
        /\ inner' = s.inner
        /\ idx' = idx + 1
        /\ UNCHANGED <<rings, pc>>
        /\ UNCHANGED OutsideRings

\* An Outer ring while an outer ring is pending.
OuterPending ==
    /\ pc = "loop"
    /\ idx <= Len(rings)
    /\ rings[idx].role = "Outer"
    /\ outer # <<>>
    /\ ApplyRingStep

\* An Outer ring while no outer ring is pending.
OuterFirst ==
    /\ pc = "loop"
    /\ idx <= Len(rings)
    /\ rings[idx].role = "Outer"
    /\ outer = <<>>
    /\ ApplyRingStep

\* An Inner ring.
InnerRing ==
    /\ pc = "loop"
    /\ idx <= Len(rings)
    /\ rings[idx].role = "Inner"
    /\ ApplyRingStep

\* The end of the loop, the final flush and the return.
ReturnPolys ==
    /\ pc = "loop"
    /\ idx > Len(rings)
    /\ LET f == FinalFlush(LoopState)
       IN  /\ polys' = f.polys
           /\ pc' = f.status
    /\ UNCHANGED <<rings, idx, outer, inner>>
    /\ UNCHANGED OutsideRings

NextRings == OuterPending \/ OuterFirst \/ InnerRing \/ ReturnPolys

SpecRings == InitRings /\ [][NextRings]_vars

(***************************************************************************)
(* Properties of the ring reconstruction.                                  *)
(***************************************************************************)
RECURSIVE CountRole(_, _, _)
CountRole(rs, role, n) ==
    IF n = 0 THEN 0
    ELSE CountRole(rs, role, n - 1) + (IF rs[n].role = role THEN 1 ELSE 0)

NumOuter(rs) == CountRole(rs, "Outer", Len(rs))
NumInner(rs) == CountRole(rs, "Inner", Len(rs))

RECURSIVE HolesUpTo(_, _)
HolesUpTo(ps, n) ==
    IF n = 0 THEN 0 ELSE HolesUpTo(ps, n - 1) + Len(ps[n].interiors)

TotalHoles(ps) == HolesUpTo(ps, Len(ps))

Roles(rs) == [i \in 1..Len(rs) |-> rs[i].role]

\* The number of Inner rings that stand before the first Outer ring.
RECURSIVE LeadingInner(_, _)
LeadingInner(rs, i) ==
    IF i > Len(rs) \/ rs[i].role = "Outer" THEN 0
    ELSE 1 + LeadingInner(rs, i + 1)

StripLeadingInner(rs) == SubSeq(rs, LeadingInner(rs, 1) + 1, Len(rs))

\* C1: for the ring list [Outer A, Inner a1, Inner a2, Outer B] geo_polygons
\* returns exactly Polygon(A, [a1, a2]) followed by Polygon(B, []).
C1_OrderingExample ==
    (pc = "done" /\ Roles(rings) = <<"Outer", "Inner", "Inner", "Outer">>)
        => polys = <<PolygonNew(GeoLinestring(rings[1]),
                                <<GeoLinestring(rings[2]),
                                  GeoLinestring(rings[3])>>),
                     PolygonNew(GeoLinestring(rings[4]), <<>>)>>

\* C2: for a well-formed ring list (the first ring is Outer) the number of
\* returned polygons is the number of Outer rings and the total number of
\* holes is the number of Inner rings.
C2_RingCountConservation ==
    (pc = "done" /\ (rings = <<>> \/ rings[1].role = "Outer"))
        => /\ Len(polys) = NumOuter(rings)
           /\ TotalHoles(polys) = NumInner(rings)

\* C3: a list of n >= 1 Outer rings and no Inner ring yields n polygons, one
\* per Outer ring in input order, each without holes.
C3_OnlyOuterRings ==
    (pc = "done" /\ Len(rings) >= 1 /\ NumInner(rings) = 0)
        => /\ Len(polys) = Len(rings)
           /\ \A i \in 1..Len(rings) :
                polys[i] = PolygonNew(GeoLinestring(rings[i]), <<>>)

\* C4: the empty ring list yields the empty polygon list without error, and
\* a single Outer ring yields exactly one polygon, whose exterior is that
\* ring and which has no holes.
C4_EmptyAndSingle ==
    /\ rings = <<>> => pc # "panic" /\ (pc = "done" => polys = <<>>)
    /\ (Len(rings) = 1 /\ rings[1].role = "Outer")
         => /\ pc # "panic"
            /\ pc = "done"
                 => /\ Len(polys) = 1
                    /\ polys[1].exterior = Close(GeoLinestring(rings[1]))
                    /\ polys[1].interiors = <<>>

C4_Witness ==
    /\ pc = "done"
    /\ Len(rings) = 1
    /\ rings[1].role = "Outer"
    /\ Len(polys) = 1

C6_NeverFails ==
    /\ pc \in {"loop", "done"}
    /\ pc = "loop" => idx <= Len(rings) + 1 /\ ENABLED NextRings
    /\ pc = "done" =>
         \A k \in 1..Len(polys) :
            DOMAIN polys[k] = {"exterior", "interiors"}

C6_Witness ==
    /\ pc = "done"
    /\ Len(rings) = MaxRings
    /\ Roles(SubSeq(rings, 1, 3)) = <<"Inner", "Outer", "Outer">>

(***************************************************************************)
(* Bounding rectangles: Convert<geo_types::Polygon>::bounded_polygon and   *)
(* Convert<geo_types::MultiPolygon>::bounded_multipolygon.                 *)
(***************************************************************************)
\* geo's BoundingRect for a LineString: None for no coordinates, else the
\* rectangle from the least to the greatest x and y, found in one pass.
RECURSIVE MinMaxUpTo(_, _)
MinMaxUpTo(ls, n) ==
    IF n = 1
    THEN [min |-> Pt(ls[1].x, ls[1].y), max |-> Pt(ls[1].x, ls[1].y)]
    ELSE LET r == MinMaxUpTo(ls, n - 1)
         IN  [min |-> Pt(Min2(r.min.x, ls[n].x), Min2(r.min.y, ls[n].y)),
              max |-> Pt(Max2(r.max.x, ls[n].x), Max2(r.max.y, ls[n].y))]

\* Convert<geo_types::LineString>::bounds: self.0.bounding_rect()
Bounds(ls) == IF Len(ls) = 0 THEN <<>> ELSE <<MinMaxUpTo(ls, Len(ls))>>

\* Convert<geo_types::Coord>::point: Point2d::new(self.x(), self.y())
Point(c) == [x |-> c.x, y |-> c.y]

\* Convert<geo_types::LineString>::contour: ClosedContour::new(points)
Contour(ls) == [points |-> [i \in 1..Len(ls) |-> Point(ls[i])]]

\* Convert<geo_types::Polygon>::polygon
Polygon(p) ==
    [outer_contour |-> Contour(p.exterior),
     inner_contours |->
        [i \in 1..Len(p.interiors) |-> Contour(p.interiors[i])]]

\* galileo's cartesian Rect::new(x_min, y_min, x_max, y_max): the four
\* numbers are stored as given.
RectNew(xmin, ymin, xmax, ymax) ==
    [x_min |-> xmin, y_min |-> ymin, x_max |-> xmax, y_max |-> ymax]

\* The coordinates of all the rings of a polygon, the exterior first.
RECURSIVE AllCoords(_, _)
AllCoords(p, n) ==
    IF n = 0 THEN p.exterior ELSE AllCoords(p, n - 1) \o p.interiors[n]

\* A mutant of BoundedPolygon: the rectangle is taken over every ring of the
\* polygon, holes included.
BoundedPolygonAllRings(p) ==
    LET conv == Bounds(AllCoords(p, Len(p.interiors)))
    IN  IF conv # <<>>
        THEN [poly |-> Polygon(p),
              bounds |-> <<RectNew(conv[1].min.x, conv[1].min.y,
                                   conv[1].max.x, conv[1].max.y)>>]
        ELSE [poly |-> Polygon(p), bounds |-> <<>>]

\* A mutant of BoundedPolygon: an exterior without coordinates gets the zero
\* rectangle in place of None.
BoundedPolygonZeroRect(p) ==
    LET conv == Bounds(p.exterior)
    IN  IF conv # <<>>
        THEN [poly |-> Polygon(p),
              bounds |-> <<RectNew(conv[1].min.x, conv[1].min.y,
                                   conv[1].max.x, conv[1].max.y)>>]
        ELSE [poly |-> Polygon(p), bounds |-> <<RectNew(0, 0, 0, 0)>>]

\* A mutant of BoundedPolygon: the polygon returned is the exterior contour
\* alone (ext.into() without the assignment of inner_contours).
BoundedPolygonBareExterior(p) ==
    LET conv == Bounds(p.exterior)
        bare == [outer_contour |-> Contour(p.exterior), inner_contours |-> <<>>]
    IN  IF conv # <<>>
        THEN [poly |-> bare,
              bounds |-> <<RectNew(conv[1].min.x, conv[1].min.y,
                                   conv[1].max.x, conv[1].max.y)>>]
        ELSE [poly |-> bare, bounds |-> <<>>]

\* Convert<geo_types::Polygon>::bounded_polygon
BoundedPolygon(p) ==
    LET conv == Bounds(p.exterior)
    IN  IF conv # <<>>
        THEN [poly |-> Polygon(p),
              bounds |-> <<RectNew(conv[1].min.x, conv[1].min.y,
                                   conv[1].max.x, conv[1].max.y)>>]
        ELSE [poly |-> Polygon(p), bounds |-> <<>>]

\* A mutant of AccInit: the accumulators start at zero.
AccInitZero == [xmin |-> 0, ymin |-> 0, xmax |-> 0, ymax |-> 0]

\* let mut xmin = f64::MAX; ymin = f64::MAX; xmax = f64::MIN; ymax = f64::MIN
AccInit ==
    [xmin |-> F64_MAX, ymin |-> F64_MAX, xmax |-> F64_MIN, ymax |-> F64_MIN]

\* A mutant of FoldStep: the comparisons of the two minima are reversed.
FoldStepReversed(a, rect) ==
    [xmin |-> IF rect.x_min > a.xmin THEN rect.x_min ELSE a.xmin,
     ymin |-> IF rect.y_min > a.ymin THEN rect.y_min ELSE a.ymin,
     xmax |-> IF rect.x_max > a.xmax THEN rect.x_max ELSE a.xmax,
     ymax |-> IF rect.y_max > a.ymax THEN rect.y_max ELSE a.ymax]

\* A mutant of FoldStep: xmin is compared with the running xmax, so whether
\* a rectangle lowers xmin depends on the rectangles folded before it.
FoldStepWrongAccumulator(a, rect) ==
    [xmin |-> IF rect.x_min < a.xmax THEN rect.x_min ELSE a.xmin,
     ymin |-> IF rect.y_min < a.ymin THEN rect.y_min ELSE a.ymin,
     xmax |-> IF rect.x_max > a.xmax THEN rect.x_max ELSE a.xmax,
     ymax |-> IF rect.y_max > a.ymax THEN rect.y_max ELSE a.ymax]

\* A mutant of FoldStep: ymax is taken from the rectangle's x_max.
FoldStepCopiedLine(a, rect) ==
    [xmin |-> IF rect.x_min < a.xmin THEN rect.x_min ELSE a.xmin,
     ymin |-> IF rect.y_min < a.ymin THEN rect.y_min ELSE a.ymin,
     xmax |-> IF rect.x_max > a.xmax THEN rect.x_max ELSE a.xmax,
     ymax |-> IF rect.x_max > a.ymax THEN rect.x_max ELSE a.ymax]

\* The body of the loop over boundaries.into_iter().flatten().
FoldStep(a, rect) ==
    [xmin |-> IF rect.x_min < a.xmin THEN rect.x_min ELSE a.xmin,
     ymin |-> IF rect.y_min < a.ymin THEN rect.y_min ELSE a.ymin,
     xmax |-> IF rect.x_max > a.xmax THEN rect.x_max ELSE a.xmax,
     ymax |-> IF rect.y_max > a.ymax THEN rect.y_max ELSE a.ymax]

\* The accumulators after the first n entries of bs; flatten() skips None.
RECURSIVE FoldRects(_, _)
FoldRects(bs, n) ==
    IF n = 0 THEN AccInit
    ELSE IF bs[n] = <<>> THEN FoldRects(bs, n - 1)
         ELSE FoldStep(FoldRects(bs, n - 1), bs[n][1])

\* The rectangle bounded_multipolygon returns for the parts m.
AggregateRect(m) ==
    LET bs == [i \in 1..Len(m) |-> BoundedPolygon(m[i]).bounds]
        a == FoldRects(bs, Len(bs))
    IN  RectNew(a.xmin, a.ymin, a.xmax, a.ymax)

(***************************************************************************)
(* The inputs of bounded_multipolygon: at most MaxParts polygons as        *)
(* geo_types::Polygon::new leaves them (every ring closed), the exterior   *)
(* possibly without coordinates.                                           *)
(***************************************************************************)
\* a ring that reaches the largest and the smallest finite value
ShapeExtreme ==
    <<Pt(F64_MIN, F64_MAX), Pt(F64_MAX, F64_MIN), Pt(F64_MIN, F64_MAX)>>
\* a ring wider than it is high
ShapeWide == <<Pt(-5, 1), Pt(15, 1), Pt(15, 3), Pt(-5, 1)>>
GeoPolygonsPool ==
    {PolygonNew(<<>>, <<>>),
     PolygonNew(<<>>, <<ShapeA1>>),
     PolygonNew(ShapeA, <<>>),
     PolygonNew(ShapeA, <<ShapeA1>>),
     PolygonNew(ShapeA1, <<>>),
     PolygonNew(ShapeA1, <<ShapeA, ShapeA2>>),
     PolygonNew(ShapeExtreme, <<>>),
     PolygonNew(ShapeWide, <<>>)}

MultiPolygons == UNION {[1..n -> GeoPolygonsPool] : n \in 0..MaxParts}

InitBounds ==
    /\ mp \in MultiPolygons
    /\ bi = 1
    /\ parts = <<>>
    /\ boundaries = <<>>
    /\ acc = <<>>
    /\ bounds = <<>>
    /\ bpc = "map"
    /\ IdleRings
    /\ IdleConv
    /\ IdlePar
    /\ IdleCalls
    /\ IdleTwin
    /\ IdleEvents
    /\ IdleClock
    /\ IdleBea
    /\ IdleOwner
    /\ IdleCards

\* One element of conv.iter().cloned().map(..): bounded_polygon, the push of
\* its bounds and the collection of its polygon.
MapPart ==
    /\ bpc = "map"
    /\ bi <= Len(mp)
    /\ LET b == BoundedPolygon(mp[bi])
       IN  /\ parts' = Append(parts, b.poly)
           /\ boundaries' = Append(boundaries, b.bounds)
    /\ bi' = bi + 1
    /\ UNCHANGED <<mp, acc, bounds, bpc>>
    /\ UNCHANGED OutsideBounds

\* The end of the map and the declaration of the four accumulators.
MapDone ==
    /\ bpc = "map"
    /\ bi > Len(mp)
    /\ acc' = AccInit
    /\ bi' = 1
    /\ bpc' = "fold"
    /\ UNCHANGED <<mp, parts, boundaries, bounds>>
    /\ UNCHANGED OutsideBounds

\* One rectangle of the fold.
FoldRect ==
    /\ bpc = "fold"
    /\ bi <= Len(boundaries)
    /\ boundaries[bi] # <<>>
    /\ acc' = FoldStep(acc, boundaries[bi][1])
    /\ bi' = bi + 1
    /\ UNCHANGED <<mp, parts, boundaries, bounds, bpc>>
    /\ UNCHANGED OutsideBounds

\* A part without a rectangle: flatten() passes over it.
FoldSkip ==
    /\ bpc = "fold"
    /\ bi <= Len(boundaries)
    /\ boundaries[bi] = <<>>
    /\ bi' = bi + 1
    /\ UNCHANGED <<mp, parts, boundaries, acc, bounds, bpc>>
    /\ UNCHANGED OutsideBounds

\* Rect::new(xmin, ymin, xmax, ymax) and the return.
ReturnBounds ==
    /\ bpc = "fold"
    /\ bi > Len(boundaries)
    /\ bounds' = <<RectNew(acc.xmin, acc.ymin, acc.xmax, acc.ymax)>>
    /\ bpc' = "done"
    /\ UNCHANGED <<mp, bi, parts, boundaries, acc>>
    /\ UNCHANGED OutsideBounds

NextBounds == MapPart \/ MapDone \/ FoldRect \/ FoldSkip \/ ReturnBounds

SpecBounds == InitBounds /\ [][NextBounds]_vars

(***************************************************************************)
(* Properties of the bounding rectangles.                                  *)
(***************************************************************************)
\* The sequence m taken in the order p, a permutation of its indices.
Reorder(m, p) == [i \in 1..Len(m) |-> m[p[i]]]

PartOrders(n) ==
    {p \in [1..n -> 1..n] : \A i, j \in 1..n : p[i] = p[j] => i = j}

\* C7: for a MultiPolygon of n >= 1 parts, each with a non-empty exterior,
\* the returned rectangle has xmin and ymin at most, and xmax and ymax at
\* least, those of every part's bounding rectangle.
C7_BoundsEncloseEveryPart ==
    (/\ bpc = "done"
     /\ Len(mp) >= 1
     /\ \A i \in 1..Len(mp) : mp[i].exterior # <<>>)
        => \A i \in 1..Len(mp) :
             /\ boundaries[i] # <<>>
             /\ bounds[1].x_min <= boundaries[i][1].x_min
             /\ bounds[1].y_min <= boundaries[i][1].y_min
             /\ bounds[1].x_max >= boundaries[i][1].x_max
             /\ bounds[1].y_max >= boundaries[i][1].y_max
             /\ \A k \in 1..Len(mp[i].exterior) :
                  /\ bounds[1].x_min <= mp[i].exterior[k].x
                  /\ bounds[1].y_min <= mp[i].exterior[k].y
                  /\ bounds[1].x_max >= mp[i].exterior[k].x
                  /\ bounds[1].y_max >= mp[i].exterior[k].y

C7_Witness ==
    /\ bpc = "done"
    /\ Len(mp) >= 2
    /\ \A i \in 1..Len(mp) : mp[i].exterior # <<>>
    /\ mp[1].exterior = ShapeA1
    /\ mp[2].exterior = ShapeA
    /\ bounds = <<RectNew(0, 0, 10, 10)>>

\* C8: when no part contributes a rectangle (no parts, or every exterior
\* empty) a rectangle is returned all the same, made of the untouched
\* sentinels: xmin = ymin = f64::MAX and xmax = ymax = f64::MIN, so that
\* min > max.
C8_SentinelRectangle ==
    (/\ bpc = "done"
     /\ \A i \in 1..Len(mp) : mp[i].exterior = <<>>)
        => /\ Len(bounds) = 1
           /\ bounds[1] = RectNew(F64_MAX, F64_MAX, F64_MIN, F64_MIN)
           /\ bounds[1].x_min > bounds[1].x_max
           /\ bounds[1].y_min > bounds[1].y_max

C8_Witness ==
    /\ bpc = "done"
    /\ Len(mp) = 2
    /\ \A i \in 1..Len(mp) : mp[i].exterior = <<>>
    /\ bounds[1].x_min > bounds[1].x_max

\* C9: the fold of the bounding rectangles does not depend on the order of
\* the parts: the returned rectangle is the one returned for every
\* permutation of the parts.
C9_FoldOrderIndependent ==
    bpc = "done" =>
        \A p \in PartOrders(Len(mp)) :
            AggregateRect(Reorder(mp, p)) = bounds[1]

C9_Witness ==
    /\ bpc = "done"
    /\ Len(mp) = 3
    /\ mp[1].exterior = ShapeA1
    /\ mp[2].exterior = <<>>
    /\ mp[3].exterior = ShapeA
    /\ bounds = <<RectNew(0, 0, 10, 10)>>

\* C10: the rectangle bounded_polygon returns depends on the exterior ring
\* only: two polygons with the same exterior get the same rectangle whatever
\* their holes, and the exterior (0,0),(0,10),(10,10),(10,0),(0,0) with the
\* hole (2,2),(2,4),(4,4),(4,2),(2,2) gets the rectangle (0,0,10,10).
C10_RectangleFromExteriorOnly ==
    \A i \in 1..Len(boundaries) :
        /\ \A j \in 1..Len(boundaries) :
             mp[i].exterior = mp[j].exterior
                => boundaries[i] = boundaries[j]
        /\ (/\ mp[i].exterior =
                 <<Pt(0, 0), Pt(0, 10), Pt(10, 10), Pt(10, 0), Pt(0, 0)>>
            /\ mp[i].interiors =
                 <<(<<Pt(2, 2), Pt(2, 4), Pt(4, 4), Pt(4, 2), Pt(2, 2)>>)>>)
               => boundaries[i] = <<RectNew(0, 0, 10, 10)>>

C10_Witness ==
    /\ Len(boundaries) = 2
    /\ mp[1] = PolygonNew(ShapeA, <<ShapeA1>>)
    /\ mp[2] = PolygonNew(ShapeA, <<>>)
    /\ boundaries[1] = <<RectNew(0, 0, 10, 10)>>
    /\ boundaries[2] = boundaries[1]

\* C11: bounded_polygon returns None exactly when the exterior ring has no
\* coordinates; an exterior with a coordinate gets a rectangle, and an empty
\* exterior never gets a zero or degenerate rectangle.
C11_NoneIffEmptyExterior ==
    \A i \in 1..Len(boundaries) :
        /\ boundaries[i] = <<>> <=> mp[i].exterior = <<>>
        /\ Len(boundaries[i]) <= 1
        /\ mp[i].exterior # <<>> =>
             /\ boundaries[i][1].x_min <= boundaries[i][1].x_max
             /\ boundaries[i][1].y_min <= boundaries[i][1].y_max

C11_Witness ==
    /\ Len(boundaries) = 2
    /\ mp[1].exterior = <<>>
    /\ mp[1].interiors # <<>>
    /\ boundaries[1] = <<>>
    /\ mp[2].exterior # <<>>
    /\ boundaries[2] # <<>>

\* The least and the greatest number of a non-empty set of numbers.
LeastOf(S) == CHOOSE m \in S : \A s \in S : m <= s
GreatestOf(S) == CHOOSE m \in S : \A s \in S : m >= s

\* The parts of the multipolygon whose exterior has a coordinate.
WithRect == {i \in 1..Len(mp) : mp[i].exterior # <<>>}

\* C20: when at least one part has a rectangle, the returned rectangle is the
\* componentwise fold over the parts that have one: xmin and ymin are the
\* least, xmax and ymax the greatest, of those parts' values; parts without a
\* rectangle are skipped and leave the four accumulators as they are.
C20_ComponentwiseFold ==
    /\ (bpc = "done" /\ WithRect # {}) =>
         /\ bounds[1].x_min = LeastOf({boundaries[i][1].x_min : i \in WithRect})
         /\ bounds[1].y_min = LeastOf({boundaries[i][1].y_min : i \in WithRect})
         /\ bounds[1].x_max =
              GreatestOf({boundaries[i][1].x_max : i \in WithRect})
         /\ bounds[1].y_max =
              GreatestOf({boundaries[i][1].y_max : i \in WithRect})
    /\ (bpc = "fold" /\ bi > 1 /\ \A i \in 1..(bi - 1) : boundaries[i] = <<>>)
         => acc = AccInit

C20_Witness ==
    /\ bpc = "done"
    /\ Len(mp) = 3
    /\ mp[1].exterior = ShapeWide
    /\ mp[2].exterior = <<>>
    /\ mp[3].exterior = ShapeA1
    /\ bounds = <<RectNew(-5, 1, 15, 4)>>

\* C17: when the pass meets an Outer ring while an outer ring is pending, it
\* emits Polygon(pending outer, accumulated holes), empties the hole
\* accumulator and makes the new Outer ring the pending outer ring.
C17_OuterWhilePending ==
    [][OuterPending =>
         /\ polys' = Append(polys, PolygonNew(outer[1], inner))
         /\ inner' = <<>>
         /\ outer' = <<GeoLinestring(rings[idx])>>]_vars

\* C18: after the pass, if an outer ring is pending and the result is still
\* empty, one final polygon of the pending outer ring and the accumulated
\* holes is emitted; in every other case nothing is added after the pass.
C18_FinalFlushOnlyWhenEmpty ==
    [][ReturnPolys =>
         IF outer # <<>> /\ polys = <<>>
         THEN polys' = <<PolygonNew(outer[1], inner)>>
         ELSE polys' = polys]_vars

C18_Witness ==
    /\ pc = "done"
    /\ outer # <<>>
    /\ Len(inner) = 2
    /\ polys = <<PolygonNew(outer[1], inner)>>

\* The Inner rings of rs that stand after position e and before the next
\* Outer ring, converted, in input order.
RECURSIVE InnerRun(_, _)
InnerRun(rs, i) ==
    IF i > Len(rs) \/ rs[i].role = "Outer" THEN <<>>
    ELSE <<Close(GeoLinestring(rs[i]))>> \o InnerRun(rs, i + 1)

\* C19: in every returned polygon the holes are exactly the Inner rings that
\* stand in the input after the polygon's exterior ring and before the next
\* Outer ring, in input order.
C19_HolesFollowTheirOuter ==
    pc = "done" =>
        \A k \in 1..Len(polys) :
            \E e \in 1..Len(rings) :
                /\ rings[e].role = "Outer"
                /\ polys[k].exterior = Close(GeoLinestring(rings[e]))
                /\ polys[k].interiors = InnerRun(rings, e + 1)

(***************************************************************************)
(* The Convert wrapper: point, line and geometry conversions.  A value is  *)
(* wrapped by Convert::new, a conversion method is called on it, and the   *)
(* result may be wrapped again.  A value is [kind, val]; kind names its    *)
(* Rust type.                                                              *)
(***************************************************************************)
Val(k, v) == [kind |-> k, val |-> v]

\* shapefile::record::point::PointZ
PtZ(a, b, c) == [x |-> a, y |-> b, z |-> c, m |-> 0]

\* A mutant of GeoTypesPointGeoPoint: the two coordinates change places.
GeoTypesPointGeoPointSwapped(p) == [x |-> p.y, y |-> p.x]

\* Convert<geo_types::Point>: point, geo_point, geo_coord
GeoTypesPointPoint(p) == [x |-> p.x, y |-> p.y]
GeoTypesPointGeoPoint(p) == [x |-> p.x, y |-> p.y]
GeoTypesPointGeoCoord(p) == [x |-> p.x, y |-> p.y]

\* Convert<shapefile::record::point::Point>: point, geo_point (geo_coord is
\* GeoCoord)
ShpPointPoint(p) == [x |-> p.x, y |-> p.y]
ShpPointGeoPoint(p) == [x |-> p.x, y |-> p.y]

\* Convert<shapefile::record::point::PointZ>: point, geo_point, geo_coord,
\* geotypes_coord
PointZPoint(p) == [x |-> p.x, y |-> p.y]
PointZGeoPoint(p) == [x |-> p.x, y |-> p.y]
PointZGeoCoord(p) == [x |-> p.x, y |-> p.y]
PointZGeotypesCoord(p) == [x |-> p.x, y |-> p.y]

\* Convert<PolygonRing<PointZ>>::geo_linestring
GeoLinestringZ(ring) ==
    [i \in 1..Len(ring.points) |-> PointZGeoCoord(ring.points[i])]

\* A mutant of GeotypesCoords: a last point that repeats the first is left
\* out.
GeotypesCoordsOpen(v) ==
    LET n == IF Len(v) > 1 /\ v[1] = v[Len(v)] THEN Len(v) - 1 ELSE Len(v)
    IN  [i \in 1..n |-> PointZGeotypesCoord(v[i])]

\* Convert<Vec<PointZ>>::geotypes_coords and galileo_points
GeotypesCoords(v) == [i \in 1..Len(v) |-> PointZGeotypesCoord(v[i])]
GalileoPoints(v) == [i \in 1..Len(v) |-> PointZPoint(v[i])]

\* geojson::Value::from(&x) for a payload x of the named geo_types type: the
\* GeoJSON value type it builds, with the payload it was given.
ValueFrom(type, x) ==
    [type |-> CASE type \in {"Line", "LineString"} -> "LineString"
                [] type \in {"Polygon", "Rect", "Triangle"} -> "Polygon"
                [] OTHER -> type,
     from |-> type,
     payload |-> x]

\* A mutant of GeojsonValue: the match has no arm for Triangle.
GeojsonValueNoTriangle(g) ==
    CASE g.variant = "Point" -> ValueFrom("Point", g.payload)
      [] g.variant = "Line" -> ValueFrom("Line", g.payload)
      [] g.variant = "LineString" -> ValueFrom("LineString", g.payload)
      [] g.variant = "Polygon" -> ValueFrom("Polygon", g.payload)
      [] g.variant = "MultiPoint" -> ValueFrom("MultiPoint", g.payload)
      [] g.variant = "MultiLineString" ->
            ValueFrom("MultiLineString", g.payload)
      [] g.variant = "MultiPolygon" -> ValueFrom("MultiPolygon", g.payload)
      [] g.variant = "GeometryCollection" ->
            ValueFrom("GeometryCollection", g.payload)
      [] g.variant = "Rect" -> ValueFrom("Rect", g.payload)
      [] OTHER -> [type |-> "unhandled", from |-> "none", payload |-> <<>>]

\* Convert<geo_types::Geometry>::geojson_value: the match on the variant.
GeojsonValue(g) ==
    CASE g.variant = "Point" -> ValueFrom("Point", g.payload)
      [] g.variant = "Line" -> ValueFrom("Line", g.payload)
      [] g.variant = "LineString" -> ValueFrom("LineString", g.payload)
      [] g.variant = "Polygon" -> ValueFrom("Polygon", g.payload)
      [] g.variant = "MultiPoint" -> ValueFrom("MultiPoint", g.payload)
      [] g.variant = "MultiLineString" ->
            ValueFrom("MultiLineString", g.payload)
      [] g.variant = "MultiPolygon" -> ValueFrom("MultiPolygon", g.payload)
      [] g.variant = "GeometryCollection" ->
            ValueFrom("GeometryCollection", g.payload)
      [] g.variant = "Rect" -> ValueFrom("Rect", g.payload)
      [] g.variant = "Triangle" -> ValueFrom("Triangle", g.payload)

(***************************************************************************)
(* The values Convert::new is given.                                       *)
(***************************************************************************)
CoordValues == {F64_MIN, 0, 7}
Heights == {3, 9}
PlanePoints == {Pt(a, b) : a, b \in CoordValues}
PointZs == {PtZ(a, b, c) : a, b \in CoordValues, c \in Heights}

\* The points of a shape with an elevation each.
Raise(s, c) == [i \in 1..Len(s) |-> PtZ(s[i].x, s[i].y, c)]

LineShapes == RingShapes \cup {<<>>, <<Pt(7, 0)>>}

Variants ==
    {"Point", "Line", "LineString", "Polygon", "MultiPoint",
     "MultiLineString", "MultiPolygon", "GeometryCollection", "Rect",
     "Triangle"}

\* One payload for each variant of geo_types::Geometry.
PayloadOf(v) ==
    CASE v = "Point" -> Pt(0, 7)
      [] v = "Line" -> <<Pt(0, 0), Pt(7, 7)>>
      [] v = "LineString" -> ShapeB
      [] v = "Polygon" -> PolygonNew(ShapeA, <<ShapeA1>>)
      [] v = "MultiPoint" -> <<Pt(0, 0), Pt(7, 0)>>
      [] v = "MultiLineString" -> <<ShapeB, ShapeA2>>
      [] v = "MultiPolygon" -> <<PolygonNew(ShapeA, <<>>)>>
      [] v = "GeometryCollection" ->
            <<[variant |-> "Point", payload |-> Pt(7, 7)]>>
      [] v = "Rect" -> [min |-> Pt(0, 0), max |-> Pt(7, 7)]
      [] v = "Triangle" -> <<Pt(0, 0), Pt(7, 0), Pt(0, 7)>>

\* Convert::new(from), for a value of each type that has a conversion.
InitConv ==
    /\ \/ \E k \in {"GeoPoint", "ShpPoint", "Coord"}, p \in PlanePoints :
            origin = Val(k, p)
       \/ \E p \in PointZs : origin = Val("PointZ", p)
       \/ \E r \in Rings : origin = Val("RingPoint", r)
       \/ \E r \in Rings, c \in Heights :
            origin = Val("RingPointZ",
                         [role |-> r.role, points |-> Raise(r.points, c)])
       \/ \E s \in LineShapes, c \in Heights :
            origin = Val("VecPointZ", Raise(s, c))
       \/ \E s \in LineShapes : origin = Val("LineString", s)
       \/ \E g \in Variants :
            origin = Val("Geometry", [variant |-> g, payload |-> PayloadOf(g)])
    /\ wrapped = origin
    /\ trail = <<>>
    /\ IdleRings
    /\ IdleBounds
    /\ IdlePar
    /\ IdleCalls
    /\ IdleTwin
    /\ IdleEvents
    /\ IdleClock
    /\ IdleBea
    /\ IdleOwner
    /\ IdleCards

\* A conversion method returned v of type k; the result is wrapped in turn.
Returned(method, k, v) ==
    /\ Len(trail) < MaxHops
    /\ wrapped' = Val(k, v)
    /\ trail' = Append(trail, [method |-> method, kind |-> k, val |-> v])
    /\ UNCHANGED origin
    /\ UNCHANGED OutsideConv

\* point(), of each type that has it
CallPoint ==
    /\ wrapped.kind \in {"GeoPoint", "ShpPoint", "PointZ", "Coord"}
    /\ Returned("point", "Point2d",
                CASE wrapped.kind = "GeoPoint" -> GeoTypesPointPoint(wrapped.val)
                  [] wrapped.kind = "ShpPoint" -> ShpPointPoint(wrapped.val)
                  [] wrapped.kind = "PointZ" -> PointZPoint(wrapped.val)
                  [] wrapped.kind = "Coord" -> Point(wrapped.val))

\* geo_point(), of each type that has it
CallGeoPoint ==
    /\ wrapped.kind \in {"GeoPoint", "ShpPoint", "PointZ"}
    /\ Returned("geo_point", "GeoPoint",
                CASE wrapped.kind = "GeoPoint" ->
                        GeoTypesPointGeoPoint(wrapped.val)
                  [] wrapped.kind = "ShpPoint" -> ShpPointGeoPoint(wrapped.val)
                  [] wrapped.kind = "PointZ" -> PointZGeoPoint(wrapped.val))

\* geo_coord(), of each type that has it
CallGeoCoord ==
    /\ wrapped.kind \in {"GeoPoint", "ShpPoint", "PointZ"}
    /\ Returned("geo_coord", "Coord",
                CASE wrapped.kind = "GeoPoint" ->
                        GeoTypesPointGeoCoord(wrapped.val)
                  [] wrapped.kind = "ShpPoint" -> GeoCoord(wrapped.val)
                  [] wrapped.kind = "PointZ" -> PointZGeoCoord(wrapped.val))

\* Convert<PointZ>::geotypes_coord
CallGeotypesCoord ==
    /\ wrapped.kind = "PointZ"
    /\ Returned("geotypes_coord", "Coord", PointZGeotypesCoord(wrapped.val))

\* geo_linestring(), of a ring of Points and of a ring of PointZs
CallGeoLinestring ==
    /\ wrapped.kind \in {"RingPoint", "RingPointZ"}
    /\ Returned("geo_linestring", "LineString",
                IF wrapped.kind = "RingPoint"
                THEN GeoLinestring(wrapped.val)
                ELSE GeoLinestringZ(wrapped.val))

\* Convert<geo_types::LineString>::contour
CallContour ==
    /\ wrapped.kind = "LineString"
    /\ Returned("contour", "ClosedContour", Contour(wrapped.val))

\* Convert<Vec<PointZ>>::geotypes_coords
CallGeotypesCoords ==
    /\ wrapped.kind = "VecPointZ"
    /\ Returned("geotypes_coords", "VecCoord", GeotypesCoords(wrapped.val))

\* Convert<Vec<PointZ>>::galileo_points
CallGalileoPoints ==
    /\ wrapped.kind = "VecPointZ"
    /\ Returned("galileo_points", "VecPoint2d", GalileoPoints(wrapped.val))

\* Convert<geo_types::Geometry>::geojson_value
CallGeojsonValue ==
    /\ wrapped.kind = "Geometry"
    /\ Returned("geojson_value", "GeojsonValue", GeojsonValue(wrapped.val))

NextConv ==
    \/ CallPoint
    \/ CallGeoPoint
    \/ CallGeoCoord
    \/ CallGeotypesCoord
    \/ CallGeoLinestring
    \/ CallContour
    \/ CallGeotypesCoords
    \/ CallGalileoPoints
    \/ CallGeojsonValue

SpecConv == InitConv /\ [][NextConv]_vars

(***************************************************************************)
(* Properties of the conversions.                                          *)
(***************************************************************************)
\* The value the i-th conversion of the trail was called on.
Before(i) ==
    IF i = 1 THEN origin ELSE Val(trail[i - 1].kind, trail[i - 1].val)

PointKinds == {"GeoPoint", "ShpPoint", "PointZ", "Coord", "Point2d"}

\* The sequence of points of a ring, a line string, a vector or a contour.
PointsOf(v) ==
    IF v.kind \in {"RingPoint", "RingPointZ", "ClosedContour"}
    THEN v.val.points
    ELSE v.val

\* C12: every point conversion is total and copies x and y as they are while
\* z is dropped; hence a point converted to one model, on to another and
\* back is the point converted to the first model directly.
C12_PointConversionsCopyXY ==
    /\ \A i \in 1..Len(trail) :
         trail[i].kind \in PointKinds =>
            /\ DOMAIN trail[i].val = {"x", "y"}
            /\ trail[i].val.x = origin.val.x
            /\ trail[i].val.y = origin.val.y
            /\ \A j \in 1..(i - 1) :
                 trail[j].kind = trail[i].kind => trail[j].val = trail[i].val
    /\ (wrapped.kind \in PointKinds \ {"Point2d"} /\ Len(trail) < MaxHops)
         => ENABLED CallPoint

C12_Witness ==
    /\ origin = Val("PointZ", PtZ(F64_MIN, 7, 9))
    /\ Len(trail) = 3
    /\ [i \in 1..3 |-> trail[i].kind] = <<"GeoPoint", "GeoPoint", "GeoPoint">>
    /\ trail[3].val = trail[1].val
    /\ trail[1].val = Pt(F64_MIN, 7)

\* C13: contour, geo_linestring and geotypes_coords return exactly the
\* points they were given: as many, in the same order, with the same x and
\* y; no closing point is added and no repeated end point removed.
C13_LineAdaptersKeepPoints ==
    \A i \in 1..Len(trail) :
        trail[i].method \in {"contour", "geo_linestring", "geotypes_coords"}
            => LET in == PointsOf(Before(i))
                   out == PointsOf(trail[i])
               IN  /\ Len(out) = Len(in)
                   /\ \A k \in 1..Len(in) :
                        out[k].x = in[k].x /\ out[k].y = in[k].y

C13_Witness ==
    /\ origin.kind = "RingPoint"
    /\ origin.val.points = ShapeB
    /\ Len(trail) = 2
    /\ trail[2].method = "contour"
    /\ Len(trail[2].val.points) = 3
    /\ trail[2].val.points[3] # trail[2].val.points[1]

GeoJsonTypes ==
    {"Point", "MultiPoint", "LineString", "MultiLineString", "Polygon",
     "MultiPolygon", "GeometryCollection"}

\* C14: geojson_value is total over the ten variants of Geometry: each
\* variant is given to the interchange constructor of its own type with its
\* own payload, and none ends unhandled.
C14_EveryVariantDispatched ==
    /\ \A i \in 1..Len(trail) :
         trail[i].method = "geojson_value" =>
            /\ Before(i).kind = "Geometry"
            /\ Before(i).val.variant \in Variants
            /\ trail[i].val.from = Before(i).val.variant
            /\ trail[i].val.payload = Before(i).val.payload
            /\ trail[i].val.type \in GeoJsonTypes
    /\ (wrapped.kind = "Geometry" /\ Len(trail) < MaxHops)
         => ENABLED CallGeojsonValue

C14_Witness ==
    /\ origin.kind = "Geometry"
    /\ origin.val.variant = "Triangle"
    /\ Len(trail) = 1
    /\ trail[1].val.from = "Triangle"
    /\ trail[1].val.type = "Polygon"

(***************************************************************************)
(* Convert<geo_types::MultiPolygon>::multipolygon: the polygons are        *)
(* converted by the workers of a parallel iterator, in any order, and      *)
(* collected into a vector.                                                *)
(***************************************************************************)
\* A mutant of Collect: the results are gathered in the order the workers
\* finished.
CollectAsFinished(sl, ord) == [k \in 1..Len(ord) |-> sl[ord[k]][1]]

\* collect::<Vec<_>>() of an indexed parallel iterator: the result of the
\* item at index i is stored at index i.
Collect(sl, ord) == [i \in 1..Len(sl) |-> sl[i][1]]

ParPool ==
    {PolygonNew(<<>>, <<>>),
     PolygonNew(ShapeA, <<ShapeA1>>),
     PolygonNew(ShapeA1, <<>>),
     PolygonNew(ShapeWide, <<ShapeA, ShapeA2>>)}

InitPar ==
    /\ pin \in UNION {[1..n -> ParPool] : n \in 0..MaxParts}
    /\ slots = [i \in 1..Len(pin) |-> <<>>]
    /\ order = <<>>
    /\ pout = <<>>
    /\ ppc = "run"
    /\ IdleRings
    /\ IdleBounds
    /\ IdleConv
    /\ IdleCalls
    /\ IdleTwin
    /\ IdleEvents
    /\ IdleClock
    /\ IdleBea
    /\ IdleOwner
    /\ IdleCards

\* A worker converts one polygon not yet converted: v.polygon().
WorkerConverts ==
    /\ ppc = "run"
    /\ \E i \in 1..Len(pin) :
         /\ slots[i] = <<>>
         /\ slots' = [slots EXCEPT ![i] = <<Polygon(pin[i])>>]
         /\ order' = Append(order, i)
    /\ UNCHANGED <<pin, pout, ppc>>
    /\ UNCHANGED OutsidePar

\* Every polygon is converted: the parts are collected and returned.
CollectParts ==
    /\ ppc = "run"
    /\ \A i \in 1..Len(pin) : slots[i] # <<>>
    /\ pout' = Collect(slots, order)
    /\ ppc' = "done"
    /\ UNCHANGED <<pin, slots, order>>
    /\ UNCHANGED OutsidePar

NextPar == WorkerConverts \/ CollectParts

SpecPar == InitPar /\ [][NextPar]_vars

\* C15: the parallel conversion keeps the input order under every
\* interleaving of its workers: the output has as many parts as the input
\* and part i is the conversion of polygon i.
C15_ParallelKeepsOrder ==
    ppc = "done" =>
        /\ Len(pout) = Len(pin)
        /\ \A i \in 1..Len(pin) :
             /\ pout[i].outer_contour.points = pin[i].exterior
             /\ Len(pout[i].inner_contours) = Len(pin[i].interiors)
             /\ \A h \in 1..Len(pin[i].interiors) :
                  pout[i].inner_contours[h].points = pin[i].interiors[h]

C15_Witness ==
    /\ ppc = "done"
    /\ Len(pin) = 3
    /\ order = <<3, 1, 2>>
    /\ pin[1].exterior # pin[3].exterior
    /\ pout[3].outer_contour.points = pin[3].exterior

(***************************************************************************)
(* A caller that calls geo_polygons several times, on ring lists of its    *)
(* choice, and the point conversions on a point in between.  What a call   *)
(* left in polys, outer and inner stays there until the next call makes    *)
(* them anew.                                                              *)
(***************************************************************************)
CallInputs ==
    {<<>>,
     <<Outer(ShapeA)>>,
     <<Outer(ShapeA), Inner(ShapeA1)>>,
     <<Inner(ShapeA1), Outer(ShapeA)>>,
     <<Outer(ShapeA), Outer(ShapeB)>>,
     <<Outer(ShapeA), Inner(ShapeA1), Outer(ShapeB), Inner(ShapeA2)>>}

InitCalls ==
    /\ IdleRings
    /\ IdleBounds
    /\ IdlePar
    /\ IdleCalls
    /\ IdleTwin
    /\ IdleEvents
    /\ IdleClock
    /\ IdleBea
    /\ IdleOwner
    /\ IdleCards
    /\ origin = Val("PointZ", PtZ(F64_MIN, 7, 3))
    /\ wrapped = origin
    /\ trail = <<>>

\* geo_polygons is called: polys, outer and inner are made anew.
EnterGeoPolygons ==
    /\ pc = "idle"
    /\ Len(calls) < MaxCalls
    /\ rings' \in CallInputs
    /\ idx' = 1
    /\ polys' = RingInit.polys
    /\ outer' = RingInit.outer
    /\ inner' = RingInit.inner
    /\ pc' = "loop"
    /\ UNCHANGED OutsideRings

\* The caller takes the result of the call.
ResultTaken ==
    /\ pc = "done"
    /\ calls' = Append(calls, [input |-> rings, output |-> polys])
    /\ pc' = "idle"
    /\ UNCHANGED <<rings, idx, polys, outer, inner>>
    /\ UNCHANGED OutsideRingsAndCalls

NextCalls ==
    \/ EnterGeoPolygons
    \/ OuterPending
    \/ OuterFirst
    \/ InnerRing
    \/ ReturnPolys
    \/ ResultTaken
    \/ CallPoint
    \/ CallGeoPoint
    \/ CallGeoCoord
    \/ CallGeotypesCoord

SpecCalls == InitCalls /\ [][NextCalls]_vars

\* The argument of the j-th point conversion called: the point the caller
\* began with, or the result of the conversion before.
ArgOf(j) == IF j = 1 THEN origin ELSE Val(trail[j - 1].kind, trail[j - 1].val)

SameArg(j, k) ==
    /\ ArgOf(j).kind = ArgOf(k).kind
    /\ ArgOf(j).val = ArgOf(k).val

\* C16: conversions are deterministic and stateless: two calls of the same
\* conversion on equal inputs return equal outputs, whatever was called
\* before and in whatever order.
C16_EqualInputsEqualOutputs ==
    /\ \A j, k \in 1..Len(calls) :
         calls[j].input = calls[k].input => calls[j].output = calls[k].output
    /\ \A j, k \in 1..Len(trail) :
         (trail[j].method = trail[k].method /\ SameArg(j, k))
             => (trail[j].kind = trail[k].kind /\ trail[j].val = trail[k].val)

C16_Witness ==
    /\ Len(calls) = 2
    /\ calls[1].input = <<Outer(ShapeA), Inner(ShapeA1)>>
    /\ calls[2].input = calls[1].input
    /\ inner # <<>>
    /\ Len(trail) = 3
    /\ trail[2].method = "geo_point"
    /\ trail[3].method = "geo_point"

(***************************************************************************)
(* The ring reconstruction of PointZ polygons,                             *)
(* Convert<GenericPolygon<PointZ>>::geo_polygons, run beside the one of    *)
(* plain polygons on ring lists with the same tags and the same x and y.   *)
(***************************************************************************)
\* A mutant of RingStepZ: an Outer ring met while one is pending becomes the
\* pending ring.
RingStepZKeepsOuter(st, ring) ==
    IF ring.role = "Outer"
    THEN IF st.outer # <<>>
         THEN [polys |-> Append(st.polys, PolygonNew(st.outer[1], st.inner)),
               outer |-> <<GeoLinestringZ(ring)>>,
               inner |-> <<>>]
         ELSE [st EXCEPT !.outer = <<GeoLinestringZ(ring)>>]
    ELSE [st EXCEPT !.inner = Append(@, GeoLinestringZ(ring))]

\* One iteration of the for loop of the PointZ implementation.
RingStepZ(st, ring) ==
    IF ring.role = "Outer"
    THEN IF st.outer # <<>>
         THEN [polys |-> Append(st.polys, PolygonNew(st.outer[1], st.inner)),
               outer |-> <<>>,
               inner |-> <<>>]
         ELSE [st EXCEPT !.outer = <<GeoLinestringZ(ring)>>]
    ELSE [st EXCEPT !.inner = Append(@, GeoLinestringZ(ring))]

\* The code after the loop of the PointZ implementation.
FinalFlushZ(st) ==
    IF st.polys = <<>> /\ st.outer # <<>>
    THEN Append(st.polys, PolygonNew(st.outer[1], st.inner))
    ELSE st.polys

\* The points of a shape with elevations that differ from point to point:
\* a ring closed in x and y need not be closed in z.
Ramp(s) == [i \in 1..Len(s) |-> PtZ(s[i].x, s[i].y, i)]

TwinRings == {Outer(ShapeA), Inner(ShapeA), Outer(ShapeB), Inner(ShapeB)}
TwinLists == UNION {[1..n -> TwinRings] : n \in 0..MaxRings}

\* The PointZ ring list with the tags and the x, y of rs.
LiftFlat(rs) ==
    [i \in 1..Len(rs) |->
        [role |-> rs[i].role, points |-> Raise(rs[i].points, 3)]]
LiftRamp(rs) ==
    [i \in 1..Len(rs) |-> [role |-> rs[i].role, points |-> Ramp(rs[i].points)]]

ZLoopState == [polys |-> zpolys, outer |-> zouter, inner |-> zinner]

InitTwin ==
    /\ rings \in TwinLists
    /\ idx = 1
    /\ polys = <<>>
    /\ outer = <<>>
    /\ inner = <<>>
    /\ pc = "loop"
    /\ zrings \in {LiftFlat(rings), LiftRamp(rings)}
    /\ zidx = 1
    /\ zpolys = <<>>
    /\ zouter = <<>>
    /\ zinner = <<>>
    /\ zpc = "loop"
    /\ IdleBounds
    /\ IdleConv
    /\ IdlePar
    /\ IdleCalls
    /\ IdleEvents
    /\ IdleClock
    /\ IdleBea
    /\ IdleOwner
    /\ IdleCards

ApplyRingStepZ ==
    LET s == RingStepZ(ZLoopState, zrings[zidx])
    IN  /\ zpolys' = s.polys
        /\ zouter' = s.outer
        /\ zinner' = s.inner
        /\ zidx' = zidx + 1
        /\ UNCHANGED <<zrings, zpc>>
        /\ UNCHANGED OutsideTwin

\* An Outer ring while an outer ring is pending.
ZOuterPending ==
    /\ zpc = "loop"
    /\ zidx <= Len(zrings)
    /\ zrings[zidx].role = "Outer"
    /\ zouter # <<>>
    /\ ApplyRingStepZ

\* An Outer ring while no outer ring is pending.
ZOuterFirst ==
    /\ zpc = "loop"
    /\ zidx <= Len(zrings)
    /\ zrings[zidx].role = "Outer"
    /\ zouter = <<>>
    /\ ApplyRingStepZ

ZInnerRing ==
    /\ zpc = "loop"
    /\ zidx <= Len(zrings)
    /\ zrings[zidx].role = "Inner"
    /\ ApplyRingStepZ

ZReturnPolys ==
    /\ zpc = "loop"
    /\ zidx > Len(zrings)
    /\ zpolys' = FinalFlushZ(ZLoopState)
    /\ zpc' = "done"
    /\ UNCHANGED <<zrings, zidx, zouter, zinner>>
    /\ UNCHANGED OutsideTwin

NextTwin ==
    \/ OuterPending
    \/ OuterFirst
    \/ InnerRing
    \/ ReturnPolys
    \/ ZOuterPending
    \/ ZOuterFirst
    \/ ZInnerRing
    \/ ZReturnPolys

SpecTwin == InitTwin /\ [][NextTwin]_vars

\* C26: the plain and the PointZ ring reconstruction, run side by side on
\* ring lists with the same tags and the same x and y, hold the same pending
\* outer ring, holes and result after every ring, and return the same list.
C26_TwinsAgree ==
    /\ (pc = "loop" /\ zpc = "loop" /\ idx = zidx) =>
           (polys = zpolys /\ outer = zouter /\ inner = zinner)
    /\ (pc = "done" /\ zpc = "done") => polys = zpolys

C26_Witness ==
    /\ pc = "done"
    /\ zpc = "done"
    /\ Len(rings) = 3
    /\ Len(zpolys) = 1
    /\ zpolys[1].interiors # <<>>
    /\ zrings[1].points[1].z # zrings[1].points[Len(zrings[1].points)].z
    /\ zrings[1].points[1].x = zrings[1].points[Len(zrings[1].points)].x

(***************************************************************************)
(* bounded_multipolygon and multipolygon called on the same MultiPolygon.  *)
(***************************************************************************)
BothPool ==
    {PolygonNew(<<>>, <<>>),
     PolygonNew(ShapeA, <<ShapeA1, ShapeA2>>),
     PolygonNew(ShapeWide, <<>>)}

InitBoth ==
    /\ mp \in UNION {[1..n -> BothPool] : n \in 0..MaxParts}
    /\ bi = 1
    /\ parts = <<>>
    /\ boundaries = <<>>
    /\ acc = <<>>
    /\ bounds = <<>>
    /\ bpc = "map"
    /\ pin = mp
    /\ slots = [i \in 1..Len(pin) |-> <<>>]
    /\ order = <<>>
    /\ pout = <<>>
    /\ ppc = "run"
    /\ IdleRings
    /\ IdleConv
    /\ IdleCalls
    /\ IdleTwin
    /\ IdleEvents
    /\ IdleClock
    /\ IdleBea
    /\ IdleOwner
    /\ IdleCards

NextBoth ==
    \/ MapPart
    \/ MapDone
    \/ FoldRect
    \/ FoldSkip
    \/ ReturnBounds
    \/ WorkerConverts
    \/ CollectParts

SpecBoth == InitBoth /\ [][NextBoth]_vars

\* C27: the sequential bounded_multipolygon and the parallel multipolygon
\* return the same MultiPolygon for every input: the same parts in the same
\* order, each with the exterior contour and the holes, in order, of the
\* input polygon.
C27_SequentialEqualsParallel ==
    (bpc = "done" /\ ppc = "done") =>
        /\ parts = pout
        /\ Len(parts) = Len(mp)
        /\ \A i \in 1..Len(mp) :
             /\ parts[i].outer_contour.points = mp[i].exterior
             /\ Len(parts[i].inner_contours) = Len(mp[i].interiors)
             /\ \A h \in 1..Len(mp[i].interiors) :
                  parts[i].inner_contours[h].points = mp[i].interiors[h]

C27_Witness ==
    /\ bpc = "done"
    /\ ppc = "done"
    /\ Len(mp) = 3
    /\ order = <<2, 3, 1>>
    /\ mp[1] # mp[2]
    /\ Len(pout[1].inner_contours) = 2
    /\ parts[2].outer_contour.points = <<>>

(***************************************************************************)
(* The result list during the pass, in both implementations.               *)
(***************************************************************************)
\* xs[i..] can be found, in order, among ys[j..].
RECURSIVE FoundInOrder(_, _, _, _)
FoundInOrder(xs, i, ys, j) ==
    IF i > Len(xs) THEN TRUE
    ELSE IF j > Len(ys) THEN FALSE
    ELSE IF xs[i] = ys[j] THEN FoundInOrder(xs, i + 1, ys, j + 1)
    ELSE FoundInOrder(xs, i, ys, j + 1)

\* The closed x, y line strings of the Outer rings among the first n rings.
RECURSIVE OuterLines(_, _)
OuterLines(rs, n) ==
    IF n = 0 THEN <<>>
    ELSE IF rs[n].role = "Outer"
         THEN Append(OuterLines(rs, n - 1),
                     Close([i \in 1..Len(rs[n].points) |->
                               Pt(rs[n].points[i].x, rs[n].points[i].y)]))
         ELSE OuterLines(rs, n - 1)

Exteriors(ps) == [k \in 1..Len(ps) |-> ps[k].exterior]

\* ps is kept whole at the head of qs.
Extends(ps, qs) ==
    /\ Len(qs) >= Len(ps)
    /\ \A k \in 1..Len(ps) : qs[k] = ps[k]

EmittedInOrder(ps, rs, n) ==
    /\ Len(ps) <= Len(OuterLines(rs, n))
    /\ FoundInOrder(Exteriors(ps), 1, OuterLines(rs, n), 1)

\* C28: during the pass the result list is append-only (a polygon once
\* emitted is never changed or removed), the exteriors of the emitted
\* polygons stand in the order of the input, and at every step there are at
\* most as many emitted polygons as Outer rings consumed so far.
C28_ResultAppendOnly ==
    /\ [][Extends(polys, polys') /\ Extends(zpolys, zpolys')]_vars
    /\ [](/\ EmittedInOrder(polys, rings, idx - 1)
          /\ EmittedInOrder(zpolys, zrings, zidx - 1))

C28_Witness ==
    /\ pc = "loop"
    /\ idx = 5
    /\ Len(polys) = 2
    /\ polys[1].exterior # polys[2].exterior
    /\ zpc = "loop"
    /\ Len(zpolys) = 2

(***************************************************************************)
(* Beehive events (src/src/import/beehive.rs): the attachment of CCTV      *)
(* reports and manhole cards, and the matching of events to assets.        *)
(* Asset ids, names and paths are strings; a civil::Date is a day number   *)
(* and a civil::DateTime a day number with a time.                         *)
(***************************************************************************)
\* civil::Date::from(datetime)
DateOf(dt) == dt.date

\* The flattened concatenation of the first n sequences of ss.
RECURSIVE Extend(_, _)
Extend(ss, n) == IF n = 0 THEN <<>> ELSE Extend(ss, n - 1) \o ss[n]

\* A mutant of AddCctvBuilder: an event without a matching report is left
\* out.
AddCctvBuilderDropsUnmatched(ev, reps) ==
    LET SameAsset(r) == r.asset.asset_id = ev.asset_id
        retained == SelectSeq(reps, SameAsset)
        SameDate(r) ==
            \/ r.file.date = ev.plan_date
            \/ r.file.date = DateOf(ev.create_date)
            \/ r.file.date = DateOf(ev.modify_date)
        matched == SelectSeq(retained, SameDate)
    IN  [i \in 1..Len(matched) |-> [ev EXCEPT !.cctv = <<matched[i]>>]]

\* Event::add_cctv_builder
AddCctvBuilder(ev, reps) ==
    LET SameAsset(r) == r.asset.asset_id = ev.asset_id
        retained == SelectSeq(reps, SameAsset)
        SameDate(r) ==
            \/ r.file.date = ev.plan_date
            \/ r.file.date = DateOf(ev.create_date)
            \/ r.file.date = DateOf(ev.modify_date)
        matched == SelectSeq(retained, SameDate)
        results == [i \in 1..Len(matched) |-> [ev EXCEPT !.cctv = <<matched[i]>>]]
    IN  IF results = <<>> THEN <<ev>> ELSE results

\* Events::build_cctv_reports: the vectors of the events, in the order of
\* the events (an indexed parallel map), one after the other.
BuildCctvReportsOf(evs, reps) ==
    LET each == [i \in 1..Len(evs) |-> AddCctvBuilder(evs[i], reps)]
    IN  Extend(each, Len(each))

\* A mutant of AddManholeCard: the card that matches last is taken.
AddManholeCardLast(ev, cs) ==
    LET SameAsset(c) == c.asset.asset_id = ev.asset_id
        kept == SelectSeq(cs, SameAsset)
    IN  IF kept = <<>> THEN ev
        ELSE [ev EXCEPT !.manhole_card = <<kept[Len(kept)].path>>]

\* Event::add_manhole_card
AddManholeCard(ev, cs) ==
    LET SameAsset(c) == c.asset.asset_id = ev.asset_id
        kept == SelectSeq(cs, SameAsset)
    IN  IF kept = <<>> THEN ev
        ELSE IF Len(kept) = 1
             THEN [ev EXCEPT !.manhole_card = <<kept[1].path>>]
             ELSE [ev EXCEPT !.manhole_card = <<kept[1].path>>]

\* Events::add_manhole_cards
AddManholeCardsOf(evs, cs) ==
    [i \in 1..Len(evs) |-> AddManholeCard(evs[i], cs)]

\* A mutant of FromDevice: the historic id of a device is not compared.
FromDeviceAssetIdOnly(ev, ds) ==
    LET Same(d) == d.asset_id = ev.asset_id
        device == SelectSeq(ds, Same)
    IN  IF device # <<>>
        THEN <<[asset |-> device[1], event |-> ev]>>
        ELSE <<>>

\* Event::from_device: the devices that match, in the order of devices (an
\* indexed parallel filter), and the first of them paired with the event.
FromDevice(ev, ds) ==
    LET Same(d) == d.asset_id = ev.asset_id \/ d.historic_id = <<ev.asset_id>>
        device == SelectSeq(ds, Same)
    IN  IF device # <<>>
        THEN <<[asset |-> device[1], event |-> ev]>>
        ELSE <<>>

\* Event::from_line
FromLine(ev, ls) ==
    LET Same(l) == l.asset_id = ev.asset_id \/ l.historic_id = <<ev.asset_id>>
        line == SelectSeq(ls, Same)
    IN  IF line # <<>>
        THEN <<[asset |-> line[1], event |-> ev]>>
        ELSE <<>>

\* Event::from_junction
FromJunction(ev, js) ==
    LET Same(j) == j.asset_id = ev.asset_id \/ j.historic_id = <<ev.asset_id>>
        junction == SelectSeq(js, Same)
    IN  IF junction # <<>>
        THEN <<[asset |-> junction[1], event |-> ev]>>
        ELSE <<>>

\* Events::from_devices: Some(results) unless results is empty.
FromDevicesOf(evs, ds) ==
    LET each == [i \in 1..Len(evs) |-> FromDevice(evs[i], ds)]
        results == Extend(each, Len(each))
    IN  IF results # <<>> THEN <<results>> ELSE <<>>

\* Events::from_lines
FromLinesOf(evs, ls) ==
    LET each == [i \in 1..Len(evs) |-> FromLine(evs[i], ls)]
        results == Extend(each, Len(each))
    IN  IF results # <<>> THEN <<results>> ELSE <<>>

\* Events::from_junctions
FromJunctionsOf(evs, js) ==
    LET each == [i \in 1..Len(evs) |-> FromJunction(evs[i], js)]
        results == Extend(each, Len(each))
    IN  IF results # <<>> THEN <<results>> ELSE <<>>

(***************************************************************************)
(* The values the methods of Events are called with.                       *)
(***************************************************************************)
\* wastewater Device, Line or Junction: the two fields the matching reads.
Asset(id, hist) == [asset_id |-> id, historic_id |-> hist]

\* cctv::Inspection
Report(id, day, file) ==
    [asset |-> Asset(id, <<>>),
     file |-> [name |-> id, date |-> day, path |-> file]]

\* manhole_card::ManholeCard
Card(id, file) == [asset |-> Asset(id, <<"h">>), path |-> file]

\* beehive::Event; name stands for the fields no method here reads.
Event(id, n, plan, created, modified, report, card) ==
    [asset_id |-> id, name |-> n, plan_date |-> plan,
     create_date |-> [date |-> created, time |-> 8],
     modify_date |-> [date |-> modified, time |-> 17],
     cctv |-> report, manhole_card |-> card]

\* Events as Events::from(EventsRaw) builds them, and one that carries a
\* report and a card already (with_cctv, with_manhole_card or an earlier
\* call).
EventPool ==
    {Event("a", "flush", 1, 2, 3, <<>>, <<>>),
     Event("b", "inspect", 3, 3, 3, <<>>, <<>>),
     Event("a", "repair", 4, 4, 5, <<Report("z", 9, "old.pdf")>>,
           <<"old.jpg">>)}

EventLists == UNION {[1..n -> EventPool] : n \in 0..MaxEvents}

ReportLists ==
    {<<>>,
     <<Report("a", 1, "r1.pdf")>>,
     <<Report("b", 1, "r2.pdf"), Report("a", 2, "r3.pdf"),
       Report("a", 1, "r1.pdf")>>,
     <<Report("a", 3, "r4.pdf"), Report("c", 3, "r5.pdf")>>}

CardLists ==
    {<<>>,
     <<Card("a", "a.jpg")>>,
     <<Card("c", "c.jpg"), Card("a", "a1.jpg"), Card("a", "a2.jpg")>>,
     <<Card("c", "c.jpg")>>}

AssetLists ==
    {<<>>,
     <<Asset("a", <<>>)>>,
     <<Asset("c", <<"q">>)>>,
     <<Asset("x", <<"a">>), Asset("a", <<"h">>), Asset("b", <<>>)>>,
     <<Asset("y", <<"b">>), Asset("b", <<"b">>)>>}

InitEvents ==
    /\ events \in EventLists
    /\ eprev = <<>>
    /\ reports = <<>>
    /\ cards = <<>>
    /\ assets = <<>>
    /\ eret = <<>>
    /\ eop = "none"
    /\ ecalls = 0
    /\ IdleRings
    /\ IdleBounds
    /\ IdleConv
    /\ IdlePar
    /\ IdleCalls
    /\ IdleTwin
    /\ IdleClock
    /\ IdleBea
    /\ IdleOwner
    /\ IdleCards

\* let records = records.build_cctv_reports(&reports)
BuildCctvReports ==
    /\ ecalls < MaxCalls
    /\ \E reps \in ReportLists :
         /\ reports' = reps
         /\ events' = BuildCctvReportsOf(events, reps)
    /\ eprev' = events
    /\ eop' = "build_cctv_reports"
    /\ ecalls' = ecalls + 1
    /\ cards' = <<>>
    /\ assets' = <<>>
    /\ eret' = <<>>
    /\ UNCHANGED OutsideEvents

\* records.add_manhole_cards(&cards)
AddManholeCards ==
    /\ ecalls < MaxCalls
    /\ \E cs \in CardLists :
         /\ cards' = cs
         /\ events' = AddManholeCardsOf(events, cs)
    /\ eprev' = events
    /\ eop' = "add_manhole_cards"
    /\ ecalls' = ecalls + 1
    /\ reports' = <<>>
    /\ assets' = <<>>
    /\ eret' = <<>>
    /\ UNCHANGED OutsideEvents

\* A call of one of the three matching methods, which read self.
Matched(method, as, ret) ==
    /\ assets' = as
    /\ eret' = ret
    /\ eprev' = events
    /\ eop' = method
    /\ ecalls' = ecalls + 1
    /\ reports' = <<>>
    /\ cards' = <<>>
    /\ UNCHANGED events
    /\ UNCHANGED OutsideEvents

\* records.from_devices(&device)
FromDevices ==
    /\ ecalls < MaxCalls
    /\ \E ds \in AssetLists : Matched("from_devices", ds, FromDevicesOf(events, ds))

\* records.from_lines(&lines)
FromLines ==
    /\ ecalls < MaxCalls
    /\ \E ls \in AssetLists : Matched("from_lines", ls, FromLinesOf(events, ls))

\* records.from_junctions(&junctions)
FromJunctions ==
    /\ ecalls < MaxCalls
    /\ \E js \in AssetLists :
         Matched("from_junctions", js, FromJunctionsOf(events, js))

NextEvents ==
    \/ BuildCctvReports
    \/ AddManholeCards
    \/ FromDevices
    \/ FromLines
    \/ FromJunctions

SpecEvents == InitEvents /\ [][NextEvents]_vars

(***************************************************************************)
(* Properties of the methods of Events.                                    *)
(***************************************************************************)
\* The report r is of the asset of the event e and of one of its three days.
ReportFits(e, r) ==
    /\ r.asset.asset_id = e.asset_id
    /\ r.file.date \in {e.plan_date, e.create_date.date, e.modify_date.date}

NoReportFits(e, reps) == \A j \in 1..Len(reps) : ~ReportFits(e, reps[j])

\* One copy of e per report among the first n that fits it, each with its
\* report.
RECURSIVE CopyPerReport(_, _, _)
CopyPerReport(e, reps, n) ==
    IF n = 0 THEN <<>>
    ELSE CopyPerReport(e, reps, n - 1)
         \o (IF ReportFits(e, reps[n])
             THEN <<[e EXCEPT !.cctv = <<reps[n]>>]>>
             ELSE <<>>)

\* The copies of the first n events, an event no report fits standing once
\* as it is.
RECURSIVE EveryEventKept(_, _, _)
EveryEventKept(evs, reps, n) ==
    IF n = 0 THEN <<>>
    ELSE EveryEventKept(evs, reps, n - 1)
         \o (IF NoReportFits(evs[n], reps)
             THEN <<evs[n]>>
             ELSE CopyPerReport(evs[n], reps, Len(reps)))

CardsOf(e, cs) == {j \in 1..Len(cs) : cs[j].asset.asset_id = e.asset_id}

FirstOf(S) == CHOOSE j \in S : \A k \in S : j <= k

\* C22: add_manhole_card matches cards to an event by asset id: without a
\* matching card the event is unchanged; otherwise its manhole_card becomes
\* the path of the first matching card in card order, and every other field
\* is unchanged.
C22_FirstMatchingCard ==
    eop = "add_manhole_cards" =>
        /\ Len(events) = Len(eprev)
        /\ \A i \in 1..Len(eprev) :
             IF CardsOf(eprev[i], cards) = {}
             THEN events[i] = eprev[i]
             ELSE events[i] =
                    [eprev[i] EXCEPT !.manhole_card =
                        <<cards[FirstOf(CardsOf(eprev[i], cards))].path>>]

C22_Witness ==
    /\ eop = "add_manhole_cards"
    /\ Len(cards) = 3
    /\ Len(eprev) = 2
    /\ eprev[1].asset_id = "b"
    /\ events[1] = eprev[1]
    /\ eprev[2].manhole_card = <<"old.jpg">>
    /\ events[2].manhole_card = <<"a1.jpg">>

\* The places of the assets the event e matches by asset id or historic id.
AssetsOf(e, as) ==
    {j \in 1..Len(as) :
        as[j].asset_id = e.asset_id \/ as[j].historic_id = <<e.asset_id>>}

\* The first n events that match an asset, each with its first match.
RECURSIVE MatchedInOrder(_, _, _)
MatchedInOrder(evs, as, n) ==
    IF n = 0 THEN <<>>
    ELSE MatchedInOrder(evs, as, n - 1)
         \o (IF AssetsOf(evs[n], as) = {} THEN <<>>
             ELSE <<[asset |-> as[FirstOf(AssetsOf(evs[n], as))],
                     event |-> evs[n]]>>)

TimeNew(hour, minute) ==
    IF hour \in 0..23 /\ minute \in 0..59
    THEN <<[hour |-> hour, minute |-> minute]>>
    ELSE <<>>

\* civil::Time::default(): midnight
Midnight == [hour |-> 0, minute |-> 0]

\* utils::hm12, after the digits and the letters are read
Hm12(hour, minutes, meridian) ==
    LET h == IF meridian = "PM" /\ hour # 12 THEN hour + 12 ELSE hour
    IN  TimeNew(h, minutes)

Hours == 0..13
Minutes == {0, 5, 30, 59, 60}
Meridians == {"AM", "PM", "am"}

InitClock ==
    /\ hm \in [hour : Hours, minutes : Minutes, meridian : Meridians]
    /\ htime = <<>>
    /\ schedule_time = Midnight
    /\ hpc = "call"
    /\ IdleRings
    /\ IdleBounds
    /\ IdleConv
    /\ IdlePar
    /\ IdleCalls
    /\ IdleTwin
    /\ IdleEvents
    /\ IdleBea
    /\ IdleOwner
    /\ IdleCards

\* if let Ok((_, result)) = utils::hm12(..) { schedule_time = result }
ScheduleTimeFound ==
    /\ hpc = "call"
    /\ Hm12(hm.hour, hm.minutes, hm.meridian) # <<>>
    /\ htime' = Hm12(hm.hour, hm.minutes, hm.meridian)
    /\ schedule_time' = htime'[1]
    /\ hpc' = "done"
    /\ UNCHANGED hm
    /\ UNCHANGED OutsideClock

\* hm12 returns an error: the default is kept.
ScheduleTimeDefault ==
    /\ hpc = "call"
    /\ Hm12(hm.hour, hm.minutes, hm.meridian) = <<>>
    /\ htime' = <<>>
    /\ hpc' = "done"
    /\ UNCHANGED <<hm, schedule_time>>
    /\ UNCHANGED OutsideClock

NextClock == ScheduleTimeFound \/ ScheduleTimeDefault

SpecClock == InitClock /\ [][NextClock]_vars

\* The hour of the 24-hour clock for the hour h of the 12-hour clock.
Hour24(h, meridian) == (h % 12) + (IF meridian = "PM" THEN 12 ELSE 0)

\* C24: hm12 converts a 12-hour clock time to 24-hour time: for every hour
\* in 1..12, minute in 0..59 and meridian AM or PM the time returned is the
\* 24-hour equivalent (12 AM is 0, 1..11 AM unchanged, 12 PM is 12, 1..11 PM
\* are h + 12).
C24_Hm12To24Hour ==
    (/\ hpc = "done"
     /\ hm.hour \in 1..12
     /\ hm.minutes \in 0..59
     /\ hm.meridian \in {"AM", "PM"}) =>
        htime = <<[hour |-> Hour24(hm.hour, hm.meridian),
                   minute |-> hm.minutes]>>

(***************************************************************************)
(* BEA values (src/src/import/bea/bea.rs): remove_comma, str_to_int and    *)
(* the use of their result in BeaData::try_from.  A string is a sequence   *)
(* of one-character strings.                                               *)
(***************************************************************************)
DigitChars == {"0", "1", "2", "3", "4", "5", "6", "7", "8", "9"}

\* nom's is_digit
IsDigit(c) == c \in DigitChars

DigitValue(c) ==
    CASE c = "0" -> 0 [] c = "1" -> 1 [] c = "2" -> 2 [] c = "3" -> 3
      [] c = "4" -> 4 [] c = "5" -> 5 [] c = "6" -> 6 [] c = "7" -> 7
      [] c = "8" -> 8 [] c = "9" -> 9

\* The length of the longest prefix of digits of s (nom's digit1 takes it).
RECURSIVE DigitRun(_)
DigitRun(s) ==
    IF s # <<>> /\ IsDigit(Head(s)) THEN 1 + DigitRun(Tail(s)) ELSE 0

Drop(s, n) == SubSeq(s, n + 1, Len(s))

StartsWith(s, t) == Len(s) >= Len(t) /\ SubSeq(s, 1, Len(t)) = t

\* remove_comma(value, num): ok is FALSE for Err; out is the Option<String>.
RECURSIVE RemoveComma(_, _)
RemoveComma(value, num) ==
    LET res == IF num # <<>> THEN num[1] ELSE <<>>
    IN  IF value = <<>> THEN [ok |-> TRUE, out |-> <<>>]
        ELSE IF IsDigit(Head(value))
        THEN LET n == DigitRun(value)
                 rem == Drop(value, n)
                 res2 == res \o SubSeq(value, 1, n)
             IN  IF Len(rem) > 0
                 THEN IF StartsWith(rem, <<",">>)
                      THEN RemoveComma(Drop(rem, 1), <<res2>>)
                      ELSE IF StartsWith(rem, <<" ", "E">>)
                      THEN RemoveComma(Drop(rem, 2), <<res2>>)
                      ELSE [ok |-> FALSE, out |-> <<>>]
                 ELSE [ok |-> TRUE, out |-> <<res2>>]
        ELSE [ok |-> TRUE, out |-> <<>>]

\* val.parse::<i64>() of a string of digits (never long enough here to
\* leave the range of i64)
RECURSIVE ParseI64(_)
ParseI64(s) ==
    IF s = <<>> THEN 0
    ELSE 10 * ParseI64(SubSeq(s, 1, Len(s) - 1)) + DigitValue(s[Len(s)])

\* str_to_int: Ok(Some(n)), Ok(None) or Err(ParseError)
StrToInt(value) ==
    LET r == RemoveComma(value, <<<<>>>>)
    IN  IF r.ok
        THEN IF r.out # <<>>
             THEN [status |-> "Ok", val |-> <<ParseI64(r.out[1])>>]
             ELSE [status |-> "Ok", val |-> <<>>]
        ELSE [status |-> "Err", val |-> <<>>]

\* The data values: every string of at most MaxLen of five characters, and
\* some longer ones of the kinds found in BEA tables.
ValueChars == {"1", "2", ",", " ", "E"}
DataValues ==
    UNION {[1..n -> ValueChars] : n \in 0..MaxLen}
    \cup {<<"1", ",", "2", "3", "4">>,
          <<"1", ",", "2", "3", "4", " ", "E">>,
          <<"(", "D", ")">>,
          <<"(", "N", "A", ")">>,
          <<"1", "2", ".", "5">>}

InitBea ==
    /\ sval \in DataValues
    /\ sres = <<>>
    /\ spc = "call"
    /\ IdleRings
    /\ IdleBounds
    /\ IdleConv
    /\ IdlePar
    /\ IdleCalls
    /\ IdleTwin
    /\ IdleEvents
    /\ IdleClock
    /\ IdleOwner
    /\ IdleCards

\* if let Some(num) = value { res.push(BeaDatum { .., data_value: num }) }
RecordKept ==
    /\ spc = "call"
    /\ StrToInt(sval).status = "Ok"
    /\ StrToInt(sval).val # <<>>
    /\ sres' = <<StrToInt(sval)>>
    /\ spc' = "kept"
    /\ UNCHANGED sval
    /\ UNCHANGED OutsideBea

\* else: the record is dropped and counted.
RecordDropped ==
    /\ spc = "call"
    /\ StrToInt(sval).status = "Ok"
    /\ StrToInt(sval).val = <<>>
    /\ sres' = <<StrToInt(sval)>>
    /\ spc' = "dropped"
    /\ UNCHANGED sval
    /\ UNCHANGED OutsideBea

\* str_to_int(..)? returns the error from try_from.
ConversionFails ==
    /\ spc = "call"
    /\ StrToInt(sval).status = "Err"
    /\ sres' = <<StrToInt(sval)>>
    /\ spc' = "failed"
    /\ UNCHANGED sval
    /\ UNCHANGED OutsideBea

NextBea == RecordKept \/ RecordDropped \/ ConversionFails

SpecBea == InitBea /\ [][NextBea]_vars

\* Digit groups separated by commas, with or without a trailing " E".
RECURSIVE Grouped(_)
Grouped(s) ==
    LET n == DigitRun(s)
        rest == Drop(s, n)
    IN  /\ n > 0
        /\ \/ rest = <<>>
           \/ rest = <<" ", "E">>
           \/ (Head(rest) = "," /\ Grouped(Tail(rest)))

\* C25: str_to_int removes thousands commas and a trailing " E" and returns
\* the integer: for digit groups separated by commas, with or without a
\* trailing " E", it returns Some of the number formed by the digits, and it
\* returns None only for values that do not start with a digit.
C25_StrToIntReadsGroups ==
    spc \in {"kept", "dropped", "failed"} =>
        /\ Grouped(sval) =>
             sres[1] = [status |-> "Ok",
                        val |-> <<ParseI64(SelectSeq(sval, IsDigit))>>]
        /\ (sres[1].status = "Ok" /\ sres[1].val = <<>>) =>
             (sval = <<>> \/ ~IsDigit(sval[1]))

(***************************************************************************)
(* Owner codes (wastewater/owner.rs, utilities/entity.rs): the decoding of *)
(* an i8 code straight to an Owner, and by way of an Entity as             *)
(* Device::from_shp does.                                                  *)
(***************************************************************************)
\* A mutant of OwnerFromEntity: GPID is taken for the City.
OwnerFromEntityGpidAsCity(entity) ==
    CASE entity = "City" -> "City"
      [] entity = "State" -> "State"
      [] entity = "County" -> "County"
      [] entity = "Federal" -> "Federal"
      [] entity = "Private" -> "Private"
      [] entity = "Unknown" -> "Unknown"
      [] entity = "Gpid" -> "City"
      [] entity = "Parks" -> "Unknown"

\* impl From<i8> for Owner
OwnerFromCode(value) ==
    CASE value = 1 -> "City"
      [] value = 3 -> "State"
      [] value = 4 -> "County"
      [] value = 5 -> "Federal"
      [] value = 6 -> "Private"
      [] value = 7 -> "Unknown"
      [] value = 100 -> "Unknown"
      [] OTHER -> "Unknown"

\* impl From<i8> for Entity
EntityFromCode(value) ==
    CASE value = 1 -> "City"
      [] value = 2 -> "Gpid"
      [] value = 3 -> "State"
      [] value = 4 -> "County"
      [] value = 5 -> "Federal"
      [] value = 6 -> "Private"
      [] value = 7 -> "Unknown"
      [] value = 8 -> "Parks"
      [] value = 100 -> "Unknown"
      [] OTHER -> "Unknown"

\* impl From<&Entity> for Owner
OwnerFromEntity(entity) ==
    CASE entity = "City" -> "City"
      [] entity = "State" -> "State"
      [] entity = "County" -> "County"
      [] entity = "Federal" -> "Federal"
      [] entity = "Private" -> "Private"
      [] entity = "Unknown" -> "Unknown"
      [] entity = "Gpid" -> "Unknown"
      [] entity = "Parks" -> "Unknown"

\* i8
Codes == -128..127

InitOwner ==
    /\ ocode \in Codes
    /\ oentity = <<>>
    /\ oviaentity = <<>>
    /\ odirect = <<>>
    /\ IdleRings
    /\ IdleBounds
    /\ IdleConv
    /\ IdlePar
    /\ IdleCalls
    /\ IdleTwin
    /\ IdleEvents
    /\ IdleClock
    /\ IdleBea
    /\ IdleCards

\* Entity::from(owner as i8)
DecodeEntity ==
    /\ oentity = <<>>
    /\ oentity' = <<EntityFromCode(ocode)>>
    /\ UNCHANGED <<ocode, oviaentity, odirect>>
    /\ UNCHANGED OutsideOwner

\* Owner::from(&entity)
DecodeOwnerOfEntity ==
    /\ oentity # <<>>
    /\ oviaentity = <<>>
    /\ oviaentity' = <<OwnerFromEntity(oentity[1])>>
    /\ UNCHANGED <<ocode, oentity, odirect>>
    /\ UNCHANGED OutsideOwner

\* Owner::from(code)
DecodeOwner ==
    /\ odirect = <<>>
    /\ odirect' = <<OwnerFromCode(ocode)>>
    /\ UNCHANGED <<ocode, oentity, oviaentity>>
    /\ UNCHANGED OutsideOwner

NextOwner == DecodeEntity \/ DecodeOwnerOfEntity \/ DecodeOwner

SpecOwner == InitOwner /\ [][NextOwner]_vars

\* The codes Owner::from names.
OwnerCodes == {1, 3, 4, 5, 6, 7, 100}

\* C30: the two ways of decoding an owner code agree for every i8 code; the
\* codes of GPID (2) and Parks (8), and every unrecognised code, give
\* Owner::Unknown by both.
C30_OwnerDecodingsAgree ==
    (oviaentity # <<>> /\ odirect # <<>>) =>
        /\ oviaentity = odirect
        /\ ocode \notin OwnerCodes => odirect = <<"Unknown">>

C30_Witness ==
    /\ ocode = 2
    /\ oentity = <<"Gpid">>
    /\ oviaentity = <<"Unknown">>
    /\ odirect = <<"Unknown">>

(***************************************************************************)
(* Manhole cards (wastewater/manhole_card.rs): the cards built from the    *)
(* devices and the file names of a directory, and the names left over.     *)
(***************************************************************************)
\* path.push(name); path.set_extension("jpg")
CardPath(dir, name) == [dir |-> dir, stem |-> name, extension |-> "jpg"]

\* ManholeCard::from_device (an Option)
ManholeCardFromDevice(device, names, path) ==
    IF device.historic_id # <<>>
    THEN LET Named(v) == v = device.asset_id \/ v = device.historic_id[1]
             kept == SelectSeq(names, Named)
         IN  IF kept # <<>>
             THEN <<[asset |-> device, path |-> CardPath(path, kept[1])]>>
             ELSE <<>>
    ELSE <<>>

\* ManholeCards::from_devices: filter_map over the devices, in order
ManholeCardsFromDevices(devs, names, path) ==
    LET each == [i \in 1..Len(devs) |->
                    ManholeCardFromDevice(devs[i], names, path)]
    IN  Extend(each, Len(each))

\* ManholeCards::get (an Option)
CardsGet(cs, name) ==
    LET Historic(v) == v.asset.historic_id = <<name>>
        contains == SelectSeq(cs, Historic)
    IN  IF contains = <<>> THEN <<>> ELSE <<contains[1]>>

\* ManholeCards::contains
CardsContains(cs, name) == CardsGet(cs, name) # <<>>

\* ManholeCards::orphans
CardsOrphans(cs, names) ==
    LET Missing(name) == ~CardsContains(cs, name)
    IN  SelectSeq(names, Missing)

FileNames == {"A1", "H1", "H2", "X9"}

\* The names of the files of a directory: no name twice.
NameLists ==
    {ns \in UNION {[1..n -> FileNames] : n \in 0..MaxNames} :
        \A i, j \in 1..Len(ns) : ns[i] = ns[j] => i = j}

DeviceLists ==
    {<<>>,
     <<Asset("A1", <<"H1">>)>>,
     <<Asset("A3", <<>>), Asset("A2", <<"H2">>)>>,
     <<Asset("A1", <<"H1">>), Asset("A2", <<"H2">>), Asset("H1", <<>>)>>}

InitCards ==
    /\ mdevices \in DeviceLists
    /\ mnames \in NameLists
    /\ mcards = <<>>
    /\ morphans = <<>>
    /\ mpc = "read"
    /\ IdleRings
    /\ IdleBounds
    /\ IdleConv
    /\ IdlePar
    /\ IdleCalls
    /\ IdleTwin
    /\ IdleEvents
    /\ IdleClock
    /\ IdleBea
    /\ IdleOwner

\* let cards = ManholeCards::from_devices(&device, &card[..], dir)
CardsFromDevices ==
    /\ mpc = "read"
    /\ mcards' = ManholeCardsFromDevices(mdevices, mnames, "ssmh")
    /\ mpc' = "built"
    /\ UNCHANGED <<mdevices, mnames, morphans>>
    /\ UNCHANGED OutsideCards

\* let orphans = cards.orphans(&card[..])
OrphansListed ==
    /\ mpc = "built"
    /\ morphans' = CardsOrphans(mcards, mnames)
    /\ mpc' = "done"
    /\ UNCHANGED <<mdevices, mnames, mcards>>
    /\ UNCHANGED OutsideCards

NextCards == CardsFromDevices \/ OrphansListed

SpecCards == InitCards /\ [][NextCards]_vars

\* The name built a card: it is the file of the path of one of the cards.
BuiltCard(name) == \E k \in 1..Len(mcards) : mcards[k].path.stem = name

Listed(name) == \E k \in 1..Len(morphans) : morphans[k] = name

\* C29: card matching and orphan reporting agree: a file name that
\* from_devices used to build a card is never returned by orphans for the
\* resulting cards, and every name that built no card is returned.
C29_OrphansAreTheUnmatched ==
    mpc = "done" =>
        \A i \in 1..Len(mnames) : Listed(mnames[i]) <=> ~BuiltCard(mnames[i])

=============================================================================
